---------------------------- MODULE Spec2Model ----------------------------
(***************************************************************************)
(* A model of the MCP debug connector: the Validator (securityUtils.ts),   *)
(* the Consent Authority (debugConsentManager.ts), the Session Registry    *)
(* (debugSessionManager.ts) and the tool handlers (mcpServer.ts).          *)
(*                                                                         *)
(* Strings are sequences of one-character tokens.  "CR", "LF" and "NUL"    *)
(* name the control characters, "SP" is a blank, and the token "X" stands  *)
(* for a run of LongRun ordinary letters, so that the length limits of the *)
(* validators are exercised by short sequences.  Paths follow the POSIX    *)
(* rules of node's path module.  undefined is the empty sequence None and  *)
(* a defined optional value v is Some(v).  A JavaScript number is a record *)
(* [whole, frac]: frac # 0 marks a non-integer.                            *)
(***************************************************************************)
EXTENDS Integers, Sequences, FiniteSets, TLC

VARIABLES
  workspaceFolders,   \* vscode.workspace.workspaceFolders: sequence of root paths
  files,              \* regular files of the workspace filesystem (set of paths)
  breakpoints,        \* vscode.debug.breakpoints: the backend breakpoint set
  approvedConfigs,    \* setting mcpVscodeConnector.approvedDebugConfigurations
  requireConsent,     \* setting mcpVscodeConnector.requireDebugConsent (None = unset)
  calls,              \* the start_debugging requests, by request slot
  resp,               \* history: the last completed breakpoint tool request
  probe,              \* a validator applied to one drawn input
  activeSessions,     \* DebugSessionManager.activeSessions: the keys of the Map, in order
  backendSessions,    \* the debug sessions that run in the Debugger Backend
  activeDebugSession, \* vscode.debug.activeDebugSession (None = undefined)
  lastEvent,          \* history: the last session event the registry observed, by id
  op,                 \* the request of a session tool that is being served
  posts,              \* the POST /mcp requests, by request slot
  serverTransport,    \* the transport the shared McpServer is connected to
  dialog,             \* the dialog of the command "manage debug approvals"
  connector           \* extension.ts: mcpServer, the start commands, servers, registries

sessionVars == <<activeSessions, backendSessions, activeDebugSession, lastEvent, op>>

httpVars == <<posts, serverTransport, connector>>

vars == <<workspaceFolders, files, breakpoints, approvedConfigs, requireConsent,
          calls, resp, probe, sessionVars, httpVars, dialog>>

None == <<>>
Some(v) == <<v>>
IsSome(o) == o # <<>>
Val(o) == o[1]

Num(n) == [whole |-> n, frac |-> 0]
NumHalf(n) == [whole |-> n, frac |-> 5]

(***************************************************************************)
(* String primitives.                                                      *)
(***************************************************************************)
MAX_FILE_PATH_LENGTH == 4096
MAX_LINE_NUMBER == 1000000
MAX_COLUMN_NUMBER == 1000
MAX_CONDITION_LENGTH == 1000
MAX_LOG_MESSAGE_LENGTH == 500
MAX_CONFIG_NAME_LENGTH == 100

W == <<"/", "w">>

LongRun == MAX_FILE_PATH_LENGTH

TokenLength(c) == IF c = "X" THEN LongRun ELSE 1

RECURSIVE StrLength(_)
StrLength(s) == IF s = <<>> THEN 0 ELSE TokenLength(Head(s)) + StrLength(Tail(s))

Includes(s, sub) ==
  \E i \in 1..(Len(s) - Len(sub) + 1) : SubSeq(s, i, i + Len(sub) - 1) = sub

IncludesAny(s, chars) == \E i \in 1..Len(s) : s[i] \in chars

RECURSIVE RemoveChars(_, _)
RemoveChars(s, chars) ==
  IF s = <<>> THEN <<>>
  ELSE IF Head(s) \in chars THEN RemoveChars(Tail(s), chars)
  ELSE <<Head(s)>> \o RemoveChars(Tail(s), chars)

WhiteSpace == {"SP", "CR", "LF"}

RECURSIVE TrimStart(_)
TrimStart(s) ==
  IF s # <<>> /\ Head(s) \in WhiteSpace THEN TrimStart(Tail(s)) ELSE s

RECURSIVE TrimEnd(_)
TrimEnd(s) ==
  IF s # <<>> /\ s[Len(s)] \in WhiteSpace THEN TrimEnd(SubSeq(s, 1, Len(s) - 1)) ELSE s

Trim(s) == TrimEnd(TrimStart(s))

(***************************************************************************)
(* node:path (POSIX): normalize, join, isAbsolute, relative roots.         *)
(***************************************************************************)
RECURSIVE Split(_)
Split(s) ==
  IF ~ \E i \in 1..Len(s) : s[i] = "/" THEN <<s>>
  ELSE LET i == CHOOSE k \in 1..Len(s) : s[k] = "/" /\ \A j \in 1..(k - 1) : s[j] # "/"
       IN  <<SubSeq(s, 1, i - 1)>> \o Split(SubSeq(s, i + 1, Len(s)))

RECURSIVE JoinSegments(_)
JoinSegments(segs) ==
  IF segs = <<>> THEN <<>>
  ELSE IF Len(segs) = 1 THEN segs[1]
  ELSE segs[1] \o <<"/">> \o JoinSegments(Tail(segs))

DotDot == <<".", ".">>

RECURSIVE NormalizeString(_, _, _)
NormalizeString(segs, res, allowAboveRoot) ==
  IF segs = <<>> THEN res
  ELSE LET h == Head(segs)
           t == Tail(segs)
       IN  IF h = <<>> \/ h = <<".">> THEN NormalizeString(t, res, allowAboveRoot)
           ELSE IF h = DotDot
             THEN IF res # <<>> /\ res[Len(res)] # DotDot
                    THEN NormalizeString(t, SubSeq(res, 1, Len(res) - 1), allowAboveRoot)
                  ELSE IF allowAboveRoot
                    THEN NormalizeString(t, Append(res, h), allowAboveRoot)
                  ELSE NormalizeString(t, res, allowAboveRoot)
           ELSE NormalizeString(t, Append(res, h), allowAboveRoot)

IsAbsolute(p) == p # <<>> /\ p[1] = "/"

Normalize(p) ==
  IF p = <<>> THEN <<".">>
  ELSE LET isAbsolute == p[1] = "/"
           trailingSeparator == p[Len(p)] = "/"
           body == JoinSegments(NormalizeString(Split(p), <<>>, ~isAbsolute))
       IN  IF body = <<>>
             THEN IF isAbsolute THEN <<"/">>
                  ELSE IF trailingSeparator THEN <<".", "/">> ELSE <<".">>
           ELSE (IF isAbsolute THEN <<"/">> ELSE <<>>) \o body
                \o (IF trailingSeparator THEN <<"/">> ELSE <<>>)

PathJoin(a, b) ==
  IF a = <<>> /\ b = <<>> THEN <<".">>
  ELSE IF a = <<>> THEN Normalize(b)
  ELSE IF b = <<>> THEN Normalize(a)
  ELSE Normalize(a \o <<"/">> \o b)

(***************************************************************************)
(* vscode.Uri.file(p).fsPath and workspace lookups.                        *)
(***************************************************************************)
UriFile(p) == IF IsAbsolute(p) THEN p ELSE <<"/">> \o p

IsPrefix(a, b) == Len(a) <= Len(b) /\ SubSeq(b, 1, Len(a)) = a

Contains(root, p) ==
  \/ p = root
  \/ IsPrefix(IF root[Len(root)] = "/" THEN root ELSE root \o <<"/">>, p)

GetWorkspaceFolder(p) ==
  LET inside == {i \in 1..Len(workspaceFolders) : Contains(workspaceFolders[i], p)}
  IN  IF inside = {} THEN None
      ELSE Some(workspaceFolders[CHOOSE i \in inside :
                  \A j \in inside : Len(workspaceFolders[j]) <= Len(workspaceFolders[i])])

(***************************************************************************)
(* SecurityUtils.                                                          *)
(***************************************************************************)
Reject(err) == [isValid |-> FALSE, sanitized |-> <<>>, error |-> err]
Accept(s) == [isValid |-> TRUE, sanitized |-> s, error |-> ""]

validateFilePath(filePath) ==
  IF filePath = <<>> THEN Reject("File path must be a non-empty string")
  ELSE IF StrLength(filePath) > MAX_FILE_PATH_LENGTH THEN Reject("File path too long")
  ELSE LET normalizedPath == Normalize(filePath)
       IN  IF Includes(normalizedPath, DotDot) \/ Includes(normalizedPath, <<"~">>)
             THEN Reject("Path traversal detected")
           ELSE IF IncludesAny(filePath, {"NUL", "CR", "LF"})
             THEN Reject("Invalid characters in path")
           ELSE IF ~IsAbsolute(normalizedPath) /\ workspaceFolders # <<>>
             THEN Accept(PathJoin(workspaceFolders[1], normalizedPath))
           ELSE Accept(normalizedPath)

IsInteger(n) == n.frac = 0

\* validateLineNumber with the lower test lineNumber < 0.
validateLineNumberAcceptsZero(lineNumber) ==
  IF ~IsInteger(lineNumber) \/ lineNumber.whole < 0
    THEN Reject("Line number must be a positive integer")
  ELSE IF lineNumber.whole > MAX_LINE_NUMBER THEN Reject("Line number too large")
  ELSE Accept(<<>>)

validateLineNumber(lineNumber) ==
  IF ~IsInteger(lineNumber) \/ lineNumber.whole < 1
    THEN Reject("Line number must be a positive integer")
  ELSE IF lineNumber.whole > MAX_LINE_NUMBER THEN Reject("Line number too large")
  ELSE Accept(<<>>)

validateColumnNumber(columnNumber) ==
  IF ~IsInteger(columnNumber) \/ columnNumber.whole < 1
    THEN Reject("Column number must be a positive integer")
  ELSE IF columnNumber.whole > MAX_COLUMN_NUMBER THEN Reject("Column number too large")
  ELSE Accept(<<>>)

\* Sanitize without the removal of "<" and ">".
SanitizeKeepsAngleBrackets(s) == Trim(RemoveChars(s, {"CR", "LF"}))

\* Sanitize that trims before it removes the characters.
SanitizeTrimsFirst(s) == RemoveChars(RemoveChars(Trim(s), {"CR", "LF"}), {"<", ">"})

Sanitize(s) == Trim(RemoveChars(RemoveChars(s, {"CR", "LF"}), {"<", ">"}))

validateBreakpointCondition(condition) ==
  IF condition = <<>> THEN Accept(<<>>)
  ELSE IF StrLength(condition) > MAX_CONDITION_LENGTH
    THEN Reject("Breakpoint condition too long")
  ELSE Accept(Sanitize(condition))

validateLogMessage(logMessage) ==
  IF logMessage = <<>> THEN Accept(<<>>)
  ELSE IF StrLength(logMessage) > MAX_LOG_MESSAGE_LENGTH THEN Reject("Log message too long")
  ELSE Accept(Sanitize(logMessage))

validateConfigurationName(configName) ==
  IF configName = <<>> THEN Reject("Configuration name must be a non-empty string")
  ELSE IF StrLength(configName) > MAX_CONFIG_NAME_LENGTH
    THEN Reject("Configuration name too long")
  ELSE IF IncludesAny(configName, {"NUL", "CR", "LF", "<", ">"})
    THEN Reject("Invalid characters in configuration name")
  ELSE Accept(<<>>)

\* fileExistsInWorkspace without the workspace folder check.
fileExistsAnywhere(filePath) == UriFile(filePath) \in files

fileExistsInWorkspace(filePath) ==
  LET uri == UriFile(filePath)
  IN  IF GetWorkspaceFolder(uri) = None THEN FALSE
      ELSE uri \in files


(***************************************************************************)
(* DebugSessionManager: breakpoints.                                       *)
(*                                                                         *)
(* A backend breakpoint is a record with 0-based line and character; kind  *)
(* tells a vscode.SourceBreakpoint from any other breakpoint.  Breakpoints *)
(* that are equal in every field are one element of the backend set.       *)
(* A message is a literal template with the operation name or the path     *)
(* that is substituted into it.                                            *)
(***************************************************************************)
SafeTemplate == "Operation {operation} failed due to invalid input or security restrictions"

\* createSafeError with the detail put into the returned message.
createSafeErrorEchoesDetail(operation, detailedError) ==
  [template |-> SafeTemplate, operation |-> operation, path |-> <<detailedError>>]

createSafeError(operation, detailedError) ==
  [template |-> SafeTemplate, operation |-> operation, path |-> <<>>]

OpenTextDocumentError(path) ==
  [template |-> "cannot open {path}", operation |-> "", path |-> path]

NoMessage == [template |-> "", operation |-> "", path |-> <<>>]

SourceBreakpoint(file, line, character, condition, hitCondition, logMessage) ==
  [kind |-> "source", file |-> file, line |-> line, character |-> character,
   enabled |-> TRUE, condition |-> condition, hitCondition |-> hitCondition,
   logMessage |-> logMessage]

\* The decimal digits of a natural number, as a template literal writes it.
RECURSIVE Digits(_)
Digits(n) ==
  IF n < 10 THEN <<ToString(n)>> ELSE Digits(n \div 10) \o <<ToString(n % 10)>>

\* An id made of the file and the line only.
generateBreakpointIdWithoutColumn(breakpoint) ==
  breakpoint.file \o <<":">> \o Digits(breakpoint.line)

generateBreakpointId(breakpoint) ==
  breakpoint.file \o <<":">> \o Digits(breakpoint.line)
                  \o <<":">> \o Digits(breakpoint.character)

\* A BreakpointInfo that keeps the 0-based line of the backend.
BreakpointInfoZeroBased(breakpoint) ==
  [id |-> generateBreakpointId(breakpoint), file |-> breakpoint.file,
   line |-> breakpoint.line, column |-> breakpoint.character + 1,
   enabled |-> breakpoint.enabled, condition |-> breakpoint.condition,
   hitCondition |-> breakpoint.hitCondition, logMessage |-> breakpoint.logMessage]

\* The BreakpointInfo getAllBreakpoints makes of a source breakpoint.
BreakpointInfo(breakpoint) ==
  [id |-> generateBreakpointId(breakpoint), file |-> breakpoint.file,
   line |-> breakpoint.line + 1, column |-> breakpoint.character + 1,
   enabled |-> breakpoint.enabled, condition |-> breakpoint.condition,
   hitCondition |-> breakpoint.hitCondition, logMessage |-> breakpoint.logMessage]

\* getAllBreakpoints(): the source breakpoints of the backend set; the order
\* of the list is the order of the backend, which the set does not keep.
getAllBreakpoints ==
  {BreakpointInfo(bp) : bp \in {b \in breakpoints : b.kind = "source"}}

Max(a, b) == IF a > b THEN a ELSE b

Threw(message) == [threw |-> TRUE, message |-> message, value |-> None, added |-> {}]

\* The chain of setBreakpoint without the check of the log message.
setBreakpointRejectionSkipsLog(fileValidation, lineValidation, columnValidation, conditionValidation, logValidation) ==
  IF ~fileValidation.isValid THEN fileValidation.error
  ELSE IF ~lineValidation.isValid THEN lineValidation.error
  ELSE IF ~columnValidation.isValid THEN columnValidation.error
  ELSE IF ~conditionValidation.isValid THEN conditionValidation.error
  ELSE IF UriFile(fileValidation.sanitized) \notin files \/ GetWorkspaceFolder(UriFile(fileValidation.sanitized)) = None
    THEN "File not found in workspace"
  ELSE ""

\* The fail-fast chain of setBreakpoint: the detail of the first check that
\* fails, "" when every check passes.
setBreakpointRejection(fileValidation, lineValidation, columnValidation, conditionValidation, logValidation) ==
  IF ~fileValidation.isValid THEN fileValidation.error
  ELSE IF ~lineValidation.isValid THEN lineValidation.error
  ELSE IF ~columnValidation.isValid THEN columnValidation.error
  ELSE IF ~conditionValidation.isValid THEN conditionValidation.error
  ELSE IF ~logValidation.isValid THEN logValidation.error
  ELSE IF ~fileExistsInWorkspace(fileValidation.sanitized) THEN "File not found in workspace"
  ELSE ""

\* setBreakpoint(file, line, column?, options?): openOk is whether
\* vscode.workspace.openTextDocument resolves for the file.
setBreakpoint(file, line, column, options, openOk) ==
  LET fileValidation == validateFilePath(file)
      lineValidation == validateLineNumber(line)
      columnValidation == IF IsSome(column) THEN validateColumnNumber(Val(column))
                          ELSE Accept(<<>>)
      hasCondition == IsSome(options.condition) /\ Val(options.condition) # <<>>
      conditionValidation == IF hasCondition
                               THEN validateBreakpointCondition(Val(options.condition))
                             ELSE Accept(<<>>)
      sanitizedCondition == IF hasCondition THEN Some(conditionValidation.sanitized)
                            ELSE None
      hasLogMessage == IsSome(options.logMessage) /\ Val(options.logMessage) # <<>>
      logValidation == IF hasLogMessage THEN validateLogMessage(Val(options.logMessage))
                       ELSE Accept(<<>>)
      sanitizedLogMessage == IF hasLogMessage THEN Some(logValidation.sanitized) ELSE None
      rejection == setBreakpointRejection(fileValidation, lineValidation, columnValidation,
                                          conditionValidation, logValidation)
  IN  IF rejection # ""
        THEN Threw(createSafeError("setBreakpoint", rejection))
      ELSE IF ~openOk
        THEN Threw(OpenTextDocumentError(UriFile(fileValidation.sanitized)))
      ELSE LET validatedColumn == column
               breakpoint ==
                 SourceBreakpoint(
                   UriFile(fileValidation.sanitized),
                   Max(0, line.whole - 1),
                   IF IsSome(validatedColumn) /\ Val(validatedColumn).whole # 0
                     THEN Max(0, Val(validatedColumn).whole - 1) ELSE 0,
                   sanitizedCondition, options.hitCondition, sanitizedLogMessage)
           IN  [threw |-> FALSE,
                message |-> NoMessage,
                value |-> Some([id |-> generateBreakpointId(breakpoint),
                                file |-> fileValidation.sanitized,
                                line |-> line,
                                column |-> validatedColumn,
                                enabled |-> TRUE,
                                condition |-> sanitizedCondition,
                                hitCondition |-> options.hitCondition,
                                logMessage |-> sanitizedLogMessage]),
                added |-> {breakpoint}]

(***************************************************************************)
(* The set_breakpoint tool and the environment of the breakpoint set.      *)
(***************************************************************************)
MaxBreakpoints == 2

E == <<"/", "e">>
WA == <<"/", "w", "/", "a">>
EA == <<"/", "e", "/", "a">>

BpFiles ==
  { WA,                                      \* absolute, inside the workspace
    <<"a">>,                                 \* relative
    <<"/", "w", "/", ".", ".", "/", "e", "/", "a">>,  \* leaves the workspace
    <<".", ".", "/", "a">>,                  \* rejected by validateFilePath
    <<"/", "w", "/", "a", "LF">>,            \* a line break in the path
    <<"/", "w", "/", "d">> }                 \* a directory, never a regular file

BpLines == {Num(0), Num(1), NumHalf(1)}

BpColumns == {None, Some(Num(0)), Some(Num(2))}

BpConditions == {None, Some(<<"SP", "a", "<", "LF">>), Some(<<"X">>)}

BpLogMessages == {None, Some(<<">", "b", "CR">>), Some(<<"X">>)}

BaseArgs == [file |-> WA, line |-> Num(1), column |-> None,
             condition |-> None, logMessage |-> None]

\* One argument at a time is varied over its whole domain, and the arguments
\* that install a breakpoint are combined.
SetBreakpointArgs ==
  {[BaseArgs EXCEPT !.file = f] : f \in BpFiles}
  \cup {[BaseArgs EXCEPT !.line = l] : l \in BpLines}
  \cup {[BaseArgs EXCEPT !.column = c] : c \in BpColumns}
  \cup {[BaseArgs EXCEPT !.condition = c] : c \in BpConditions}
  \cup {[BaseArgs EXCEPT !.logMessage = m] : m \in BpLogMessages}
  \cup {[file |-> f, line |-> Num(1), column |-> c,
         condition |-> Some(<<"SP", "a", "<", "LF">>),
         logMessage |-> Some(<<">", "b", "CR">>)] :
           f \in {WA, <<"a">>}, c \in {None, Some(Num(2))}}
  \cup {[BaseArgs EXCEPT !.file = <<"a">>, !.column = Some(Num(2))]}

NoArgs == [file |-> <<>>, line |-> Num(0), column |-> None,
           condition |-> None, logMessage |-> None]

NoResp ==
  [tool |-> "none", args |-> NoArgs, threw |-> FALSE,
   message |-> NoMessage, value |-> None, added |-> {},
   removed |-> {}, success |-> "none", free |-> FALSE, trace |-> <<>>]

(***************************************************************************)
(* What a handler does in order: the lines it and the registry append to   *)
(* the output channel ("audit", "security", "diag"), the lines written by  *)
(* console.error ("console") and the calls of the registry ("call").       *)
(* text names the literal part of a line; content holds the strings that   *)
(* are interpolated into it.                                               *)
(***************************************************************************)
Line(kind, text, content) == [kind |-> kind, text |-> text, content |-> content]

\* `${error.message}` in a log line: the path a message carries, if any.
MessageContent(message) == IF message.path = <<>> THEN <<>> ELSE <<message.path>>

\* console.error of createSafeError, written when detailedError is truthy.
createSafeErrorLog(operation, detailedError) ==
  IF detailedError # "" THEN <<Line("console", detailedError, <<>>)>> ELSE <<>>

RECURSIVE CommonPrefixLen(_, _)
CommonPrefixLen(a, b) ==
  IF a = <<>> \/ b = <<>> \/ Head(a) # Head(b) THEN 0
  ELSE 1 + CommonPrefixLen(Tail(a), Tail(b))

\* path.relative(from, to) for absolute normalized paths.
Relative(from, to) ==
  LET f == SelectSeq(Split(from), LAMBDA x : x # <<>>)
      t == SelectSeq(Split(to), LAMBDA x : x # <<>>)
      n == CommonPrefixLen(f, t)
      up == [i \in 1..(Len(f) - n) |-> DotDot]
      rest == up \o SubSeq(t, n + 1, Len(t))
  IN  JoinSegments(rest)

getRelativePath(filePath) ==
  IF workspaceFolders # <<>> THEN Relative(workspaceFolders[1], filePath) ELSE filePath

\* The lines setBreakpoint writes, given the detail of the failed check.
setBreakpointLog(rejection, sanitizedPath, openOk) ==
  IF rejection # ""
    THEN createSafeErrorLog("setBreakpoint", rejection)
         \o <<Line("security", rejection,
                   IF rejection = "File not found in workspace" THEN <<sanitizedPath>>
                   ELSE <<>>),
              Line("diag", "Error setting breakpoint", <<>>)>>
  ELSE IF ~openOk
    THEN <<Line("diag", "Error setting breakpoint", <<UriFile(sanitizedPath)>>)>>
  ELSE <<Line("security", "Set breakpoint at", <<getRelativePath(sanitizedPath)>>)>>

\* The detail of the check of setBreakpoint that fails on args, "" if none.
RejectionOf(args) ==
  setBreakpointRejection(
    validateFilePath(args.file), validateLineNumber(args.line),
    IF IsSome(args.column) THEN validateColumnNumber(Val(args.column)) ELSE Accept(<<>>),
    IF IsSome(args.condition) /\ Val(args.condition) # <<>>
      THEN validateBreakpointCondition(Val(args.condition)) ELSE Accept(<<>>),
    IF IsSome(args.logMessage) /\ Val(args.logMessage) # <<>>
      THEN validateLogMessage(Val(args.logMessage)) ELSE Accept(<<>>))

\* set_breakpoint: the audit line of the request, the call, the audit line
\* of the result (r is what setBreakpoint returned or threw).
SetBreakpointTrace(args, openOk, r) ==
  <<Line("audit", "requested to set breakpoint at", <<args.file>>),
    Line("call", "setBreakpoint", <<>>)>>
  \o (IF ~r.threw THEN setBreakpointLog("", Val(r.value).file, openOk)
      ELSE setBreakpointLog(RejectionOf(args), validateFilePath(args.file).sanitized, openOk))
  \o <<IF r.threw THEN Line("audit", "Failed to set breakpoint", MessageContent(r.message))
       ELSE Line("audit", "Successfully set breakpoint at", <<Val(r.value).file>>)>>

\* History: no source breakpoint of the backend set is at the location of
\* the breakpoint the call installs (on its line, when no column is given).
LocationIsFree(added, column) ==
  \A a \in added : \A bp \in breakpoints :
     ~(/\ bp.kind = "source" /\ bp.file = a.file /\ bp.line = a.line
       /\ (column = None \/ bp.character = a.character))

\* mcpServer.ts set_breakpoint: options carry condition and logMessage only.
SetBreakpointTool(args, openOk) ==
  \E r \in {setBreakpoint(args.file, args.line, args.column,
                           [condition |-> args.condition, hitCondition |-> None,
                            logMessage |-> args.logMessage], openOk)} :
      /\ Cardinality(breakpoints \cup r.added) <= MaxBreakpoints
      /\ breakpoints' = breakpoints \cup r.added
      /\ resp' = [tool |-> "set_breakpoint", args |-> args,
                  threw |-> r.threw, message |-> r.message, value |-> r.value,
                  added |-> r.added, removed |-> {}, success |-> "none",
                  free |-> ~r.threw /\ LocationIsFree(r.added, args.column),
                  trace |-> SetBreakpointTrace(args, openOk, r)]
      /\ UNCHANGED <<workspaceFolders, files, approvedConfigs, requireConsent,
                     calls, probe, sessionVars, httpVars, dialog>>

\* A chain of removeBreakpoint that asks for the file to exist, as the
\* chain of setBreakpoint does.
removeBreakpointRejectionNeedsFile(fileValidation, lineValidation, columnValidation) ==
  IF ~fileValidation.isValid THEN fileValidation.error
  ELSE IF UriFile(fileValidation.sanitized) \notin files THEN "File not found in workspace"
  ELSE IF ~lineValidation.isValid THEN lineValidation.error
  ELSE IF ~columnValidation.isValid THEN columnValidation.error
  ELSE ""

\* The fail-fast chain of removeBreakpoint: the detail of the first check
\* that fails, "" when every check passes.
removeBreakpointRejection(fileValidation, lineValidation, columnValidation) ==
  IF ~fileValidation.isValid THEN fileValidation.error
  ELSE IF ~lineValidation.isValid THEN lineValidation.error
  ELSE IF ~columnValidation.isValid THEN columnValidation.error
  ELSE ""

\* A column test that lets every column pass.
NoColumnAlways(validatedColumn) == TRUE

\* A length test that holds for the empty list too.
HasMatchesAlways(breakpointsToRemove) == TRUE

\* breakpointsToRemove.length > 0
HasMatches(breakpointsToRemove) == breakpointsToRemove # {}

\* !validatedColumn: the column is undefined (or 0, which validation rejects).
NoColumn(validatedColumn) == ~IsSome(validatedColumn) \/ Val(validatedColumn).whole = 0

\* removeBreakpoint(file, line, column?).
removeBreakpoint(file, line, column) ==
  LET fileValidation == validateFilePath(file)
      lineValidation == validateLineNumber(line)
      columnValidation == IF IsSome(column) THEN validateColumnNumber(Val(column))
                          ELSE Accept(<<>>)
      rejection == removeBreakpointRejection(fileValidation, lineValidation, columnValidation)
      validatedColumn == column
      breakpointsToRemove ==
        {bp \in breakpoints :
           /\ bp.kind = "source"
           /\ bp.file = fileValidation.sanitized
           /\ bp.line + 1 = line.whole
           /\ (NoColumn(validatedColumn) \/ bp.character + 1 = Val(validatedColumn).whole)}
  IN  IF rejection # ""
        THEN [threw |-> TRUE, message |-> createSafeError("removeBreakpoint", rejection),
              success |-> "none", removed |-> {},
              lines |-> createSafeErrorLog("removeBreakpoint", rejection)
                        \o <<Line("security", rejection, <<>>),
                             Line("diag", "Error removing breakpoint", <<>>)>>]
      ELSE IF HasMatches(breakpointsToRemove)
        THEN [threw |-> FALSE, message |-> NoMessage, success |-> "true",
              removed |-> breakpointsToRemove,
              lines |-> <<Line("security", "Removed breakpoint at",
                              <<getRelativePath(fileValidation.sanitized)>>)>>]
      ELSE [threw |-> FALSE, message |-> NoMessage, success |-> "false", removed |-> {},
            lines |-> <<Line("diag", "No breakpoint found at",
                            <<getRelativePath(fileValidation.sanitized)>>)>>]

\* One argument at a time is varied over its whole domain, and the arguments
\* that match an installed breakpoint are combined.
RemoveBreakpointArgs ==
  {[BaseArgs EXCEPT !.file = f] : f \in BpFiles}
  \cup {[BaseArgs EXCEPT !.line = l] : l \in BpLines \cup {Num(2)}}
  \cup {[BaseArgs EXCEPT !.file = f, !.column = c] :
           f \in {WA, <<"a">>}, c \in BpColumns \cup {Some(Num(1))}}

\* mcpServer.ts remove_breakpoint.
RemoveBreakpointTool(args) ==
  \E r \in {removeBreakpoint(args.file, args.line, args.column)} :
      /\ breakpoints' = breakpoints \ r.removed
      /\ resp' = [tool |-> "remove_breakpoint", args |-> args,
                  threw |-> r.threw, message |-> r.message, value |-> None,
                  added |-> {}, removed |-> r.removed, success |-> r.success,
                  free |-> FALSE,
                  trace |-> <<Line("audit", "requested to remove breakpoint at", <<args.file>>),
                              Line("call", "removeBreakpoint", <<>>)>>
                            \o r.lines
                            \o <<IF r.threw
                                   THEN Line("audit", "Failed to remove breakpoint",
                                             MessageContent(r.message))
                                 ELSE IF r.success = "true"
                                   THEN Line("audit", "Successfully removed breakpoint at",
                                             <<args.file>>)
                                 ELSE Line("audit", "Breakpoint not found for removal at",
                                           <<args.file>>)>>]
      /\ UNCHANGED <<workspaceFolders, files, approvedConfigs, requireConsent,
                     calls, probe, sessionVars, httpVars, dialog>>

\* Breakpoints the user sets in the editor, outside this program's control.
UserBreakpoints ==
  { [kind |-> "function", file |-> <<>>, line |-> 0, character |-> 0, enabled |-> TRUE,
     condition |-> None, hitCondition |-> None, logMessage |-> None],
    SourceBreakpoint(EA, 1, 0, Some(<<"a", "<", "b">>), Some(<<">", "1">>), None),
    SourceBreakpoint(WA, 1, 0, None, None, None) }

UserAddsBreakpoint(bp) ==
  /\ bp \notin breakpoints
  /\ Cardinality(breakpoints) < MaxBreakpoints
  /\ breakpoints' = breakpoints \cup {bp}
  /\ UNCHANGED <<workspaceFolders, files, approvedConfigs, requireConsent,
                 calls, resp, probe, sessionVars, httpVars, dialog>>

UserRemovesBreakpoint(bp) ==
  /\ bp \in breakpoints
  /\ breakpoints' = breakpoints \ {bp}
  /\ UNCHANGED <<workspaceFolders, files, approvedConfigs, requireConsent,
                 calls, resp, probe, sessionVars, httpVars, dialog>>

\* The workspace file /w/a is created or deleted on disk.
FileChanges ==
  /\ files' = IF WA \in files THEN files \ {WA} ELSE files \cup {WA}
  /\ UNCHANGED <<workspaceFolders, breakpoints, approvedConfigs, requireConsent,
                 calls, resp, probe, sessionVars, httpVars, dialog>>

\* The user opens or closes the workspace folder /w.
WorkspaceFoldersChange ==
  /\ workspaceFolders' = IF workspaceFolders = <<>> THEN <<W>> ELSE <<>>
  /\ UNCHANGED <<files, breakpoints, approvedConfigs, requireConsent,
                 calls, resp, probe, sessionVars, httpVars, dialog>>

(***************************************************************************)
(* DebugConsentManager.                                                    *)
(***************************************************************************)
isConfigurationApproved(configurationName) ==
  \E i \in 1..Len(approvedConfigs) : approvedConfigs[i] = configurationName

\* isConsentRequired with a default of false for the unset flag.
isConsentRequiredDefaultsOff == IF requireConsent = None THEN FALSE ELSE Val(requireConsent)

isConsentRequired == IF requireConsent = None THEN TRUE ELSE Val(requireConsent)

\* approveConfiguration writing back the list it read.
approveConfigurationForgets(configurationName) ==
  IF \E i \in 1..Len(approvedConfigs) : approvedConfigs[i] = configurationName
    THEN None
  ELSE Some(approvedConfigs)

\* approveConfiguration without the test for a name that is in the list.
approveConfigurationAppendsAlways(configurationName) ==
  Some(Append(approvedConfigs, configurationName))

\* approveConfiguration: the list it hands to config.update, None when it
\* makes no update because the name is already in the list it read.
approveConfiguration(configurationName) ==
  IF ~isConfigurationApproved(configurationName)
    THEN Some(Append(approvedConfigs, configurationName))
  ELSE None

\* revokeConfigurationApproval: the list it hands to config.update.
revokeConfigurationApproval(configurationName) ==
  SelectSeq(approvedConfigs, LAMBDA name : name # configurationName)

\* requestConsent persisting the approval on Approve Once too.
requestConsentPersistsOnce(result) ==
  IF result \in {Some("Approve Always"), Some("Approve Once")}
    THEN [granted |-> TRUE, persist |-> TRUE]
  ELSE [granted |-> FALSE, persist |-> FALSE]

\* requestConsent granting on Deny.
requestConsentGrantsOnDeny(result) ==
  IF result = Some("Approve Always") THEN [granted |-> TRUE, persist |-> TRUE]
  ELSE IF result \in {Some("Approve Once"), Some("Deny")}
    THEN [granted |-> TRUE, persist |-> FALSE]
  ELSE [granted |-> FALSE, persist |-> FALSE]

\* requestConsent granting when the dialog is dismissed.
requestConsentGrantsOnDismissal(result) ==
  IF result = Some("Approve Always") THEN [granted |-> TRUE, persist |-> TRUE]
  ELSE IF result \in {Some("Approve Once"), None}
    THEN [granted |-> TRUE, persist |-> FALSE]
  ELSE [granted |-> FALSE, persist |-> FALSE]

\* requestConsent: what the answer of the modal dialog leads to.  The dialog
\* resolves to the chosen button, or to undefined (None) when it is dismissed.
requestConsent(result) ==
  IF result = Some("Approve Always") THEN [granted |-> TRUE, persist |-> TRUE]
  ELSE IF result = Some("Approve Once") THEN [granted |-> TRUE, persist |-> FALSE]
  ELSE [granted |-> FALSE, persist |-> FALSE]

\* canUseConfiguration up to its prompt: "granted" without a prompt, or "ask".
canUseConfiguration(configurationName) ==
  IF ~isConsentRequired THEN "granted"
  ELSE IF isConfigurationApproved(configurationName) THEN "granted"
  ELSE "ask"

(***************************************************************************)
(* DebugSessionManager.startDebugging and the start_debugging tool.        *)
(*                                                                         *)
(* A request is suspended while the consent dialog is open ("prompt") and  *)
(* while config.update is writing the approved list ("updating"); the rest *)
(* of the handler runs in the step that resumes it.  backend is the answer *)
(* of vscode.debug.startDebugging: "started", "declined" or "rejected".    *)
(***************************************************************************)
MaxCalls == 2

CallIds == 1..MaxCalls

NameA == <<"A">>
NameB == <<"B">>

ConfigurationNames == {NameA, NameB, <<"A", "LF">>}

FolderArgs == {None, Some(W), Some(<<".", ".", "/", "w">>)}

PromptAnswers == {Some("Approve Once"), Some("Approve Always"), Some("Deny"), None}

BackendAnswers == {"started", "declined", "rejected"}

IdleCall ==
  [pc |-> "idle", name |-> <<>>, folder |-> None, prompts |-> 0, answer |-> None,
   required |-> FALSE, approved |-> FALSE, canUse |-> None, pending |-> None,
   startRequest |-> None, result |-> "none"]

NoCalls == [c \in CallIds |-> IdleCall]

\* catch (error): a message that includes 'SECURITY' is thrown again, any
\* other error makes startDebugging return false.
MessageIncludesSECURITY(message) ==
  Includes(message.path, <<"S", "E", "C", "U", "R", "I", "T", "Y">>)

startDebuggingCatch(message) ==
  IF MessageIncludesSECURITY(message) THEN "threw" ELSE "false"

\* startDebugging going on whatever canUseConfiguration answered.
startDebuggingNeverDenied(canUse) == FALSE

\* if (!canUse) return false
startDebuggingDenied(canUse) == ~canUse

\* A lookup that takes the validated path for a folder without looking.
ResolveFolderUnchecked(sanitizedPath) == Some(sanitizedPath)

\* The workspace folder startDebugging resolves: None when there is none.
ResolveFolder(sanitizedPath) ==
  IF \E i \in 1..Len(workspaceFolders) : workspaceFolders[i] = sanitizedPath
    THEN Some(sanitizedPath)
  ELSE None

\* startDebugging from the answer of canUseConfiguration on.
startDebuggingAfterConsent(call, canUse, backend) ==
  IF startDebuggingDenied(canUse)
    THEN [call EXCEPT !.pc = "done", !.canUse = Some(canUse), !.result = "false"]
  ELSE LET hasFolder == IsSome(call.folder) /\ Val(call.folder) # <<>>
           folderValidation == IF hasFolder THEN validateFilePath(Val(call.folder))
                               ELSE Accept(<<>>)
           folder == IF hasFolder THEN ResolveFolder(folderValidation.sanitized)
                     ELSE IF workspaceFolders # <<>> THEN Some(workspaceFolders[1])
                     ELSE None
       IN  IF ~folderValidation.isValid
             THEN [call EXCEPT !.pc = "done", !.canUse = Some(canUse),
                     !.result = startDebuggingCatch(
                                  createSafeError("startDebugging", folderValidation.error))]
           ELSE IF folder = None
             THEN [call EXCEPT !.pc = "done", !.canUse = Some(canUse), !.result = "false"]
           ELSE [call EXCEPT !.pc = "done", !.canUse = Some(canUse),
                   !.startRequest = Some([folder |-> Val(folder), name |-> call.name]),
                   !.result = IF backend = "started" THEN "true" ELSE "false"]

\* The agent calls start_debugging(configurationName, workspaceFolder?).
StartDebuggingTool(c, configurationName, workspaceFolder, backend) ==
  /\ calls[c].pc = "idle"
  /\ LET call == [IdleCall EXCEPT !.name = configurationName, !.folder = workspaceFolder,
                                  !.required = isConsentRequired,
                                  !.approved = isConfigurationApproved(configurationName)]
         configValidation == validateConfigurationName(configurationName)
     IN  calls' = [calls EXCEPT ![c] =
           IF ~configValidation.isValid
             THEN [call EXCEPT !.pc = "done", !.required = FALSE, !.approved = FALSE,
                     !.result = startDebuggingCatch(
                                  createSafeError("startDebugging", configValidation.error))]
           ELSE IF canUseConfiguration(configurationName) = "granted"
             THEN startDebuggingAfterConsent(call, TRUE, backend)
           ELSE [call EXCEPT !.pc = "prompt", !.prompts = 1]]
  /\ UNCHANGED <<workspaceFolders, files, breakpoints, approvedConfigs, requireConsent,
                 resp, probe, sessionVars, httpVars, dialog>>

\* The user answers or dismisses the consent dialog of request c.
AnswerPrompt(c, result, backend) ==
  /\ calls[c].pc = "prompt"
  /\ LET call == [calls[c] EXCEPT !.answer = result]
         consent == requestConsent(result)
         update == approveConfiguration(call.name)
     IN  calls' = [calls EXCEPT ![c] =
           IF consent.persist /\ IsSome(update)
             THEN [call EXCEPT !.pc = "updating", !.pending = update]
           ELSE startDebuggingAfterConsent(call, consent.granted, backend)]
  /\ UNCHANGED <<workspaceFolders, files, breakpoints, approvedConfigs, requireConsent,
                 resp, probe, sessionVars, httpVars, dialog>>

\* config.update of request c resolves: the list it was given is the setting.
UpdateResolves(c, backend) ==
  /\ calls[c].pc = "updating"
  /\ approvedConfigs' = Val(calls[c].pending)
  /\ calls' = [calls EXCEPT ![c] = startDebuggingAfterConsent(calls[c], TRUE, backend)]
  /\ UNCHANGED <<workspaceFolders, files, breakpoints, requireConsent, resp, probe, sessionVars, httpVars,
                 dialog>>

\* The response of request c has been sent; the slot serves the next request.
Respond(c) ==
  /\ calls[c].pc = "done"
  /\ calls' = [calls EXCEPT ![c] = IdleCall]
  /\ UNCHANGED <<workspaceFolders, files, breakpoints, approvedConfigs, requireConsent,
                 resp, probe, sessionVars, httpVars, dialog>>

\* The user edits the setting mcpVscodeConnector.requireDebugConsent.
UserSetsRequireConsent(value) ==
  /\ requireConsent # value
  /\ requireConsent' = value
  /\ UNCHANGED <<workspaceFolders, files, breakpoints, approvedConfigs, calls, resp, probe, sessionVars, httpVars,
                 dialog>>

NoProbe == [fn |-> "none", input |-> <<>>, done |-> FALSE, result |-> Accept(<<>>)]

SessionIds == {"s1", "s2"}

\* No session tool request is being served.
NoOp ==
  [tool |-> "none", arg |-> "", pc |-> "idle", session |-> None, requests |-> <<>>,
   result |-> "none", listed |-> <<>>, threw |-> FALSE, trace |-> <<>>]

MaxPosts == 3

PostIds == 1..MaxPosts

NoPost == [pc |-> "idle", open |-> FALSE, deliveredOn |-> None, aborted |-> FALSE]

NoPosts == [r \in PostIds |-> NoPost]

\* No debug session runs, no session tool and no POST request is being served.
InitSessionsIdle ==
  /\ activeSessions = <<>>
  /\ backendSessions = {}
  /\ activeDebugSession = None
  /\ lastEvent = [id \in SessionIds |-> "none"]
  /\ op = NoOp

(***************************************************************************)
(* extension.ts: the commands "start connector" and "stop connector".      *)
(*                                                                         *)
(* startMCPServer tests mcpServer, calls createMcpServer, which constructs *)
(* the registry (its constructor subscribes to the session events) and     *)
(* calls app.listen, and is suspended until the server listens or fails    *)
(* ("listening"); only then is mcpServer assigned.  A server and a         *)
(* registry carry the number of the start command that made them.          *)
(***************************************************************************)
MaxStarts == 3

StartIds == 1..MaxStarts

DefaultPort == 8743

Ports == {DefaultPort, DefaultPort + 1}

IdleStart == [pc |-> "idle", port |-> DefaultPort]

\* No server runs and no start command has been issued.
StoppedConnector ==
  [mcpServer |-> None, port |-> DefaultPort, starts |-> [s \in StartIds |-> IdleStart],
   listening |-> {}, subscribed |-> {}, message |-> ""]

\* The connector was started once and runs.
RunningConnector ==
  [StoppedConnector EXCEPT
     !.mcpServer = Some(1), !.starts[1].pc = "done", !.listening = {1},
     !.subscribed = {1}, !.message = "MCP Connector started"]

\* if (mcpServer)
AlreadyRunning(c) == c.mcpServer # None

\* The command "start connector", number s: up to the await of createMcpServer.
StartMCPServer(s) ==
  /\ connector.starts[s].pc = "idle"
  /\ \A t \in StartIds : t < s => connector.starts[t].pc # "idle"
  /\ connector' =
       IF AlreadyRunning(connector)
         THEN [connector EXCEPT !.starts[s].pc = "done",
                                !.message = "MCP Server is already running"]
       ELSE [connector EXCEPT
               !.starts[s] = [pc |-> "listening", port |-> connector.port],
               !.subscribed = connector.subscribed \cup {s},
               !.message = "Starting MCP Server"]
  /\ UNCHANGED <<workspaceFolders, files, breakpoints, approvedConfigs, requireConsent,
                 calls, resp, probe, sessionVars, posts, serverTransport, dialog>>

\* The port of start s is held by a server that listens.
PortInUse(s) ==
  \E t \in connector.listening : connector.starts[t].port = connector.starts[s].port

\* app.listen of start s calls back, or emits 'error' (the port is in use,
\* by a server of this program or by another program): the promise of
\* createMcpServer settles and startMCPServer goes on.
ListenSettles(s, outcome) ==
  /\ connector.starts[s].pc = "listening"
  /\ outcome = "listening" => ~PortInUse(s)
  /\ connector' =
       IF outcome = "listening"
         THEN [connector EXCEPT !.starts[s].pc = "done", !.mcpServer = Some(s),
                                !.listening = connector.listening \cup {s},
                                !.message = "MCP Connector started"]
       ELSE [connector EXCEPT !.starts[s].pc = "done",
                              !.message = "Failed to start MCP Server"]
  /\ UNCHANGED <<workspaceFolders, files, breakpoints, approvedConfigs, requireConsent,
                 calls, resp, probe, sessionVars, posts, serverTransport, dialog>>

\* The command "stop connector": mcpServer.close() and mcpServer = null.
StopMCPServer ==
  /\ connector' =
       IF connector.mcpServer = None
         THEN [connector EXCEPT !.message = "MCP Server is not running"]
       ELSE [connector EXCEPT !.mcpServer = None,
                              !.listening = connector.listening \ {Val(connector.mcpServer)},
                              !.message = "MCP Connector stopped"]
  /\ UNCHANGED <<workspaceFolders, files, breakpoints, approvedConfigs, requireConsent,
                 calls, resp, probe, sessionVars, posts, serverTransport, dialog>>

\* The user edits the setting mcpVscodeConnector.port.
UserSetsPort(port) ==
  /\ connector.port # port
  /\ connector' = [connector EXCEPT !.port = port]
  /\ UNCHANGED <<workspaceFolders, files, breakpoints, approvedConfigs, requireConsent,
                 calls, resp, probe, sessionVars, posts, serverTransport, dialog>>

\* The tools are served by a connector that runs.
InitHttpIdle ==
  /\ posts = NoPosts
  /\ serverTransport = None
  /\ connector = RunningConnector

\* The dialog of the approvals is not open.
NoDialog ==
  [pc |-> "closed", shown |-> <<>>, selected |-> None, answer |-> None,
   read |-> <<>>, pending |-> None, message |-> ""]

InitDialogClosed == dialog = NoDialog

InitBreakpoints ==
  /\ InitSessionsIdle
  /\ InitHttpIdle
  /\ InitDialogClosed
  /\ workspaceFolders = <<W>>
  /\ files = {WA, EA}
  /\ breakpoints = {}
  /\ approvedConfigs = <<>>
  /\ requireConsent = None
  /\ calls = NoCalls
  /\ resp = NoResp
  /\ probe = NoProbe

NextBreakpoints ==
  \/ \E args \in SetBreakpointArgs, openOk \in BOOLEAN : SetBreakpointTool(args, openOk)
  \/ \E bp \in UserBreakpoints : UserAddsBreakpoint(bp)
  \/ \E bp \in breakpoints : UserRemovesBreakpoint(bp)
  \/ FileChanges
  \/ WorkspaceFoldersChange

SpecBreakpoints == InitBreakpoints /\ [][NextBreakpoints]_vars

\* Setting and removing breakpoints: the set_breakpoint requests that install.
InstallArgs ==
  {[BaseArgs EXCEPT !.file = f, !.line = l, !.column = c] :
     f \in {WA, <<"a">>}, l \in {Num(1), Num(2)}, c \in {None, Some(Num(2))}}

InitRemoval == InitBreakpoints

NextRemoval ==
  \/ \E args \in InstallArgs : SetBreakpointTool(args, TRUE)
  \/ \E args \in RemoveBreakpointArgs : RemoveBreakpointTool(args)
  \/ \E bp \in UserBreakpoints : UserAddsBreakpoint(bp)
  \/ \E bp \in breakpoints : UserRemovesBreakpoint(bp)
  \/ FileChanges
  \/ WorkspaceFoldersChange

SpecRemoval == InitRemoval /\ [][NextRemoval]_vars

\* Breakpoint ids: the user sets breakpoints in files whose names hold
\* colons and digits, on lines and columns of one and two digits, next to
\* the breakpoints the agent installs.
IdFiles ==
  {EA, EA \o <<":", "1">>, EA \o <<":", "1", ":", "0">>, EA \o <<":", "1", "0">>}

IdBreakpoints ==
  {SourceBreakpoint(f, l, c, None, None, None) :
     f \in IdFiles, l \in {0, 1, 10}, c \in {0, 1, 10}}

InitBreakpointIds == InitBreakpoints

NextBreakpointIds ==
  \/ \E args \in InstallArgs : SetBreakpointTool(args, TRUE)
  \/ \E bp \in IdBreakpoints : UserAddsBreakpoint(bp)
  \/ \E bp \in breakpoints : UserRemovesBreakpoint(bp)

SpecBreakpointIds == InitBreakpointIds /\ [][NextBreakpointIds]_vars

InitConsent == InitBreakpoints

NextConsent ==
  \/ \E c \in CallIds, n \in ConfigurationNames, f \in FolderArgs, b \in BackendAnswers :
       StartDebuggingTool(c, n, f, b)
  \/ \E c \in CallIds, a \in PromptAnswers, b \in BackendAnswers : AnswerPrompt(c, a, b)
  \/ \E c \in CallIds, b \in BackendAnswers : UpdateResolves(c, b)
  \/ \E c \in CallIds : Respond(c)
  \/ \E v \in {None, Some(TRUE), Some(FALSE)} : UserSetsRequireConsent(v)
  \/ WorkspaceFoldersChange

SpecConsent == InitConsent /\ [][NextConsent]_vars

\* What the host schedules on its own: a pending config.update resolves and
\* a finished handler sends its response.  The consent dialog is modal and
\* has no timeout: only the user ends it, and nothing makes the user answer.
FairnessConsent ==
  \A c \in CallIds :
     /\ WF_vars(\E b \in BackendAnswers : UpdateResolves(c, b))
     /\ WF_vars(Respond(c))

SpecConsentFair == InitConsent /\ [][NextConsent]_vars /\ FairnessConsent

(***************************************************************************)
(* The approved list under approveConfiguration and                        *)
(* revokeConfigurationApproval called one after the other: each call reads *)
(* the setting, and its config.update has resolved before the next call.   *)
(* probe keeps the last call: its name, the list before and after it, and  *)
(* whether it repeats the call before it.                                  *)
(***************************************************************************)
ApprovalNames == {NameA, NameB, <<"C">>, <<"D">>}

NoMutation ==
  [fn |-> "none", input |-> <<>>, done |-> FALSE,
   result |-> [before |-> <<>>, after |-> <<>>, repeats |-> FALSE]]

Mutation(fn, name, after) ==
  [fn |-> fn, input |-> name, done |-> TRUE,
   result |-> [before |-> approvedConfigs, after |-> after,
               repeats |-> probe.fn = fn /\ probe.input = name]]

ApproveConfiguration(name) ==
  /\ \E update \in {approveConfiguration(name)} :
        \E after \in {IF IsSome(update) THEN Val(update) ELSE approvedConfigs} :
           /\ approvedConfigs' = after
           /\ probe' = Mutation("approveConfiguration", name, after)
  /\ UNCHANGED <<workspaceFolders, files, breakpoints, requireConsent, calls, resp,
                 sessionVars, httpVars, dialog>>

RevokeConfigurationApproval(name) ==
  /\ \E after \in {revokeConfigurationApproval(name)} :
        /\ approvedConfigs' = after
        /\ probe' = Mutation("revokeConfigurationApproval", name, after)
  /\ UNCHANGED <<workspaceFolders, files, breakpoints, requireConsent, calls, resp,
                 sessionVars, httpVars, dialog>>

InitApprovedSet ==
  /\ workspaceFolders = <<W>>
  /\ files = {}
  /\ breakpoints = {}
  /\ approvedConfigs = <<>>
  /\ requireConsent = None
  /\ calls = NoCalls
  /\ resp = NoResp
  /\ InitSessionsIdle
  /\ InitHttpIdle
  /\ InitDialogClosed
  /\ probe = NoMutation

NextApprovedSet ==
  \/ \E name \in ApprovalNames : ApproveConfiguration(name)
  \/ \E name \in ApprovalNames : RevokeConfigurationApproval(name)

SpecApprovedSet == InitApprovedSet /\ [][NextApprovedSet]_vars

(***************************************************************************)
(* DebugConsentManager.showManageApprovalsDialog.                          *)
(*                                                                         *)
(* The command is suspended while the quick pick is open ("picking"),      *)
(* while the warning message is open ("confirming") and while              *)
(* config.update writes the list ("updating").  An item of the quick pick  *)
(* is a record of its label and its action; the quick pick and the warning *)
(* message resolve to undefined (None) when the user dismisses them.       *)
(* Meanwhile a consent prompt may be answered Approve Always.              *)
(***************************************************************************)
ClearItem == [label |-> <<"Clear All Approvals">>, action |-> "clear"]

\* The items of the quick pick for the list the dialog read.
QuickPickItems(configs) ==
  {[label |-> configs[i], action |-> "revoke"] : i \in 1..Len(configs)} \cup {ClearItem}

\* The buttons of the warning message.
ConfirmButtons(action) ==
  IF action = "revoke" THEN {"Revoke", "Cancel"} ELSE {"Clear All", "Cancel"}

\* A test that takes every answer but Cancel for the confirmation.
ConfirmedUnlessCancelled(action, confirm) == confirm # Some("Cancel")

\* confirm === 'Revoke' / confirm === 'Clear All'
Confirmed(action, confirm) ==
  IF action = "revoke" THEN confirm = Some("Revoke") ELSE confirm = Some("Clear All")

\* The command is run: with nothing approved it tells so and returns.
ShowManageApprovalsDialog ==
  /\ dialog.pc = "closed"
  /\ dialog' =
       IF approvedConfigs = <<>>
         THEN [NoDialog EXCEPT
                 !.message = "No debug configurations have been approved yet."]
       ELSE [NoDialog EXCEPT !.pc = "picking", !.shown = approvedConfigs]
  /\ UNCHANGED <<workspaceFolders, files, breakpoints, approvedConfigs, requireConsent,
                 calls, resp, probe, sessionVars, httpVars>>

\* The quick pick resolves: to an item, or to undefined.
QuickPickResolves(selected) ==
  /\ dialog.pc = "picking"
  /\ IF selected = None THEN TRUE ELSE Val(selected) \in QuickPickItems(dialog.shown)
  /\ dialog' =
       IF selected = None THEN NoDialog
       ELSE [dialog EXCEPT !.pc = "confirming", !.selected = selected]
  /\ UNCHANGED <<workspaceFolders, files, breakpoints, approvedConfigs, requireConsent,
                 calls, resp, probe, sessionVars, httpVars>>

\* The warning message resolves: to one of its buttons, or to undefined.
\* On the confirmation the list is read and the new list is handed to
\* config.update.
WarningResolves(confirm) ==
  /\ dialog.pc = "confirming"
  /\ IF confirm = None THEN TRUE
     ELSE Val(confirm) \in ConfirmButtons(Val(dialog.selected).action)
  /\ dialog' =
       IF Confirmed(Val(dialog.selected).action, confirm)
         THEN [dialog EXCEPT
                 !.pc = "updating", !.answer = confirm, !.read = approvedConfigs,
                 !.pending =
                   IF Val(dialog.selected).action = "revoke"
                     THEN Some(revokeConfigurationApproval(Val(dialog.selected).label))
                   ELSE Some(<<>>)]
       ELSE NoDialog
  /\ UNCHANGED <<workspaceFolders, files, breakpoints, approvedConfigs, requireConsent,
                 calls, resp, probe, sessionVars, httpVars>>

\* config.update of the dialog resolves: the list it was given is the setting.
DialogUpdateResolves ==
  /\ dialog.pc = "updating"
  /\ approvedConfigs' = Val(dialog.pending)
  /\ dialog' =
       [NoDialog EXCEPT
          !.message = IF Val(dialog.selected).action = "revoke" THEN "Approval revoked for"
                      ELSE "All debug configuration approvals cleared"]
  /\ UNCHANGED <<workspaceFolders, files, breakpoints, requireConsent,
                 calls, resp, probe, sessionVars, httpVars>>

DialogNames == {NameA, NameB, <<"C">>}

InitManageApprovals == InitApprovedSet

NextManageApprovals ==
  \/ ShowManageApprovalsDialog
  \/ \E selected \in {None} \cup {Some(item) : item \in QuickPickItems(dialog.shown)} :
        QuickPickResolves(selected)
  \/ \E confirm \in {None, Some("Revoke"), Some("Clear All"), Some("Cancel")} :
        WarningResolves(confirm)
  \/ DialogUpdateResolves
  \/ \E name \in DialogNames : ApproveConfiguration(name)

SpecManageApprovals == InitManageApprovals /\ [][NextManageApprovals]_vars

\* A step of the set_breakpoint tool: only the breakpoint tools write resp.
\* (A request that leaves resp as it was repeats, from a state with the same
\* workspace, files and breakpoints, a step that changed resp.)
SetBreakpointStep == resp' # resp /\ resp'.tool = "set_breakpoint"

\* Whether one of the validators of setBreakpoint's chain fails on args,
\* each validator asked on its own.
AnyValidatorFails(args) ==
  \/ ~validateFilePath(args.file).isValid
  \/ ~validateLineNumber(args.line).isValid
  \/ IsSome(args.column) /\ ~validateColumnNumber(Val(args.column)).isValid
  \/ IsSome(args.condition) /\ ~validateBreakpointCondition(Val(args.condition)).isValid
  \/ IsSome(args.logMessage) /\ ~validateLogMessage(Val(args.logMessage)).isValid
  \/ ~fileExistsInWorkspace(validateFilePath(args.file).sanitized)

\* C8: if any validator of setBreakpoint's chain (file path, line, column,
\* condition, log message, existence in the workspace) fails, setBreakpoint
\* adds no breakpoint, the backend breakpoint set is unchanged and the call
\* ends with the safe error of operation setBreakpoint.
C8_ValidationFailureTouchesNothing ==
  [][(SetBreakpointStep /\ AnyValidatorFails(resp'.args))
       => /\ resp'.added = {}
          /\ breakpoints' = breakpoints
          /\ resp'.threw
          /\ resp'.value = None
          /\ resp'.message = createSafeError("setBreakpoint", "")]_vars

C8_Witness ==
  /\ resp.tool = "set_breakpoint"
  /\ resp.threw
  /\ resp.message = createSafeError("setBreakpoint", "")
  /\ validateFilePath(resp.args.file).isValid
  /\ IsSome(resp.args.logMessage)
  /\ ~validateLogMessage(Val(resp.args.logMessage)).isValid
  /\ breakpoints # {}

InsideKnownRoot(path) ==
  \E i \in 1..Len(workspaceFolders) :
     LET root == workspaceFolders[i]
     IN  path = root \/ (Len(path) > Len(root) + 1 /\ SubSeq(path, 1, Len(root) + 1) = root \o <<"/">>)

NoDangerousChars(optionalString) ==
  IsSome(optionalString) => ~IncludesAny(Val(optionalString), {"CR", "LF", "<", ">"})

\* C10: every caller-supplied value that setBreakpoint hands to the backend
\* has passed validation or sanitization: the installed path is the one
\* validateFilePath accepted, line and column were accepted by their
\* validators, and the installed condition, hit condition and log message
\* contain no CR, LF, "<" or ">".
C10_OnlyValidatedValuesReachBackend ==
  [][SetBreakpointStep =>
       \A bp \in resp'.added :
          /\ validateFilePath(resp'.args.file).isValid
          /\ bp.file = validateFilePath(resp'.args.file).sanitized
          /\ validateLineNumber(resp'.args.line).isValid
          /\ bp.line = resp'.args.line.whole - 1
          /\ IsSome(resp'.args.column) =>
               /\ validateColumnNumber(Val(resp'.args.column)).isValid
               /\ bp.character = Val(resp'.args.column).whole - 1
          /\ ~IsSome(resp'.args.column) => bp.character = 0
          /\ NoDangerousChars(bp.condition)
          /\ NoDangerousChars(bp.hitCondition)
          /\ NoDangerousChars(bp.logMessage)]_vars

C10_Witness ==
  /\ resp.tool = "set_breakpoint"
  /\ IsSome(resp.args.condition)
  /\ IncludesAny(Val(resp.args.condition), {"CR", "LF", "<", ">"})
  /\ IsSome(resp.args.logMessage)
  /\ IncludesAny(Val(resp.args.logMessage), {"CR", "LF", "<", ">"})
  /\ IsSome(resp.args.column)
  /\ \E bp \in resp.added : bp \in breakpoints /\ IsSome(bp.condition) /\ IsSome(bp.logMessage)

Approvals == {Some("Approve Once"), Some("Approve Always")}

\* canUse(name) returned true in the request: it was asked, and consent was
\* not required, or the name was approved, or the user approved the prompt.
CanUseReturnedTrue(call) ==
  /\ IsSome(call.canUse)
  /\ \/ ~call.required
     \/ call.approved
     \/ call.prompts = 1 /\ call.answer \in Approvals

\* C1: startDebugging asks the backend to start a session only if canUse
\* returned true during that same call; in every other case no backend
\* start request is made and the call returns false.
C1_StartOnlyWithConsent ==
  \A c \in CallIds :
     /\ IsSome(calls[c].startRequest) =>
          /\ calls[c].pc = "done"
          /\ CanUseReturnedTrue(calls[c])
          /\ Val(calls[c].startRequest).name = calls[c].name
     /\ (calls[c].pc = "done" /\ ~CanUseReturnedTrue(calls[c])) =>
          /\ calls[c].startRequest = None
          /\ calls[c].result = "false"

C1_Witness ==
  \E c \in CallIds :
     /\ calls[c].pc = "done"
     /\ calls[c].required /\ ~calls[c].approved
     /\ calls[c].answer = Some("Approve Once")
     /\ IsSome(calls[c].startRequest)
     /\ calls[c].result = "true"

\* The step in which request c goes on.
StepOf(c) == calls'[c] # calls[c]

\* C2: with consent required and the name not approved, a startDebugging
\* call whose prompt is answered Deny returns false, requests no backend
\* start, and its steps leave the approved configuration set as it was.
C2_DenyLeavesEverythingAlone ==
  [][\A c \in CallIds :
       /\ (StepOf(c) /\ calls'[c].pc = "prompt") => approvedConfigs' = approvedConfigs
       /\ (StepOf(c) /\ calls[c].pc = "prompt" /\ calls'[c].answer = Some("Deny")) =>
            /\ calls'[c].pc = "done"
            /\ calls'[c].result = "false"
            /\ calls'[c].startRequest = None
            /\ approvedConfigs' = approvedConfigs]_vars

C2_Witness ==
  \E c \in CallIds :
     /\ calls[c].pc = "done"
     /\ calls[c].name = NameA
     /\ calls[c].required /\ ~calls[c].approved
     /\ calls[c].answer = Some("Deny")
     /\ calls[c].result = "false"
     /\ approvedConfigs = <<NameB>>

C4_PromptFailsClosed ==
  [][\A c \in CallIds :
       (StepOf(c) /\ calls[c].pc = "prompt" /\ calls'[c].answer \notin Approvals) =>
          /\ calls'[c].canUse = Some(FALSE)
          /\ calls'[c].pending = None
          /\ approvedConfigs' = approvedConfigs
          /\ calls'[c].startRequest = None]_vars

C4_Witness ==
  \E c \in CallIds :
     /\ calls[c].pc = "done"
     /\ calls[c].prompts = 1
     /\ calls[c].answer = None
     /\ calls[c].canUse = Some(FALSE)
     /\ ~isConfigurationApproved(calls[c].name)

\* C5: when the consent-required flag is false, canUse(name) returns true
\* for every name without a prompt and without changing the approved set;
\* an unset flag counts as true (consent required).
C5_FlagOffGrantsWithoutPrompt ==
  [][/\ requireConsent = Some(FALSE) =>
          \A n \in ConfigurationNames : canUseConfiguration(n) = "granted"
     /\ \A c \in CallIds :
          (StepOf(c) /\ calls[c].pc = "idle"
             /\ validateConfigurationName(calls'[c].name).isValid) =>
             /\ requireConsent = Some(FALSE) =>
                  /\ calls'[c].canUse = Some(TRUE)
                  /\ calls'[c].prompts = 0
                  /\ approvedConfigs' = approvedConfigs
             /\ (requireConsent = None /\ ~isConfigurationApproved(calls'[c].name)) =>
                  (calls'[c].pc = "prompt" /\ calls'[c].prompts = 1)]_vars

C5_Witness ==
  \E c \in CallIds :
     /\ requireConsent = Some(FALSE)
     /\ calls[c].pc = "done"
     /\ ~calls[c].required
     /\ ~isConfigurationApproved(calls[c].name)
     /\ calls[c].prompts = 0
     /\ calls[c].canUse = Some(TRUE)
     /\ IsSome(calls[c].startRequest)

\* C6: the agent cannot start a debug session on its own: the backend is
\* asked to start a session only in a request during which the user acted
\* (answered the consent prompt).
C6_AgentCannotStartSessions ==
  \A c \in CallIds : IsSome(calls[c].startRequest) => calls[c].prompts > 0

\* An argument of the start_debugging request fails validation: the
\* configuration name, or a folder argument that is given.
StartArgumentInvalid(call) ==
  \/ ~validateConfigurationName(call.name).isValid
  \/ IsSome(call.folder) /\ Val(call.folder) # <<>>
       /\ ~validateFilePath(Val(call.folder)).isValid

\* C11: a setBreakpoint, removeBreakpoint or startDebugging call in which the
\* validation of an argument fails leaves the backend breakpoint set, the
\* live session map and the approved configuration set as they were.
C11_ValidationFailureLeavesStateUnchanged ==
  [][\A c \in CallIds :
       (StepOf(c) /\ calls'[c].pc # "idle" /\ StartArgumentInvalid(calls'[c])) =>
          /\ approvedConfigs' = approvedConfigs
          /\ breakpoints' = breakpoints
          /\ activeSessions' = activeSessions]_vars

\* C12: a validation failure ends startDebugging with the safe error raised
\* to the dispatcher, not with the boolean false of a consent denial, of a
\* missing folder or of a backend that declines.
C12_ValidationFailureIsRaised ==
  \A c \in CallIds :
     (calls[c].pc = "done" /\ calls[c].startRequest = None
        /\ calls[c].canUse # Some(FALSE) /\ StartArgumentInvalid(calls[c]))
     => calls[c].result = "threw"

\* C13: a failure of a backend call, or of opening the target document, is
\* caught inside the registry, so the response of a tool never carries the
\* raw exception message: an error response carries the safe message only,
\* which holds no filesystem path.
C13_ErrorResponsesCarryTheSafeMessage ==
  (resp.tool \in {"set_breakpoint", "remove_breakpoint"} /\ resp.threw)
  => /\ resp.message.template = SafeTemplate
     /\ resp.message.path = <<>>

(***************************************************************************)
(* DebugSessionManager: the live session map and the session tools.        *)
(*                                                                         *)
(* activeSessions is the Map keyed by session id, kept as the sequence of  *)
(* its keys in insertion order.  The backend fires its session events to   *)
(* the listeners in the order it emits them; a listener runs to its end.   *)
(* A session tool is suspended while a request to the backend is pending   *)
(* (op.pc = "waiting").                                                     *)
(***************************************************************************)
\* Map.delete that leaves the entry in the map.
MapDeleteKeepsEntry(m, key) == m

\* if (!session) that never takes the branch.
NoActiveSessionNeverTaken(session) == FALSE

\* Map.prototype.set / delete on the keys.
MapSet(m, key) == IF \E i \in 1..Len(m) : m[i] = key THEN m ELSE Append(m, key)

MapDelete(m, key) == SelectSeq(m, LAMBDA k : k # key)

\* vscode.debug.onDidStartDebugSession fires for session id.
SessionStarted(id) ==
  /\ id \notin backendSessions
  /\ backendSessions' = backendSessions \cup {id}
  /\ activeSessions' = MapSet(activeSessions, id)
  /\ lastEvent' = [lastEvent EXCEPT ![id] = "started"]
  /\ UNCHANGED <<workspaceFolders, files, breakpoints, approvedConfigs, requireConsent,
                 calls, resp, probe, activeDebugSession, op, httpVars, dialog>>

\* vscode.debug.onDidTerminateDebugSession fires for session id.
SessionTerminated(id) ==
  /\ id \in backendSessions
  /\ backendSessions' = backendSessions \ {id}
  /\ activeDebugSession' = IF activeDebugSession = Some(id) THEN None
                           ELSE activeDebugSession
  /\ activeSessions' = MapDelete(activeSessions, id)
  /\ lastEvent' = [lastEvent EXCEPT ![id] = "terminated"]
  /\ UNCHANGED <<workspaceFolders, files, breakpoints, approvedConfigs, requireConsent,
                 calls, resp, probe, op, httpVars, dialog>>

\* vscode.debug.activeDebugSession changes: a running session gets the focus,
\* or none has it.
ActiveSessionChanges(session) ==
  /\ session # activeDebugSession
  /\ IF session = None THEN TRUE ELSE Val(session) \in backendSessions
  /\ activeDebugSession' = session
  /\ UNCHANGED <<workspaceFolders, files, breakpoints, approvedConfigs, requireConsent,
                 calls, resp, probe, activeSessions, backendSessions, lastEvent, op,
                 httpVars, dialog>>

SessionTools ==
  {"inspect_variables", "step_execution", "continue_execution", "get_call_stack",
   "stop_debugging"}

StepTypes == {"over", "into", "out"}

\* The registry method a tool calls.
RegistryMethod(tool) ==
  CASE tool = "inspect_variables" -> "getVariables"
    [] tool = "step_execution" -> "step"
    [] tool = "continue_execution" -> "continue"
    [] tool = "get_call_stack" -> "getCallStack"
    [] tool = "stop_debugging" -> "stopDebugging"
    [] tool = "list_debug_sessions" -> "getActiveSessions"
    [] tool = "get_active_session_info" -> "getActiveSession"
    [] tool = "list_breakpoints" -> "getAllBreakpoints"
    [] tool = "list_launch_configurations" -> "getLaunchConfigurations"

\* The first request a registry method sends to the backend.
FirstRequest(tool, stepType) ==
  CASE tool = "inspect_variables" -> "stackTrace"
    [] tool = "step_execution" ->
         (CASE stepType = "over" -> "stepOver"
            [] stepType = "into" -> "stepInto"
            [] stepType = "out" -> "stepOut")
    [] tool = "continue_execution" -> "continue"
    [] tool = "get_call_stack" -> "stackTrace"
    [] tool = "stop_debugging" -> "stopDebugging"

\* A catch block that returns what the method returns on success.
DegradedAsSucceeded(tool) ==
  IF tool \in {"inspect_variables", "get_call_stack"} THEN "list" ELSE "true"

\* What a registry method returns when it has nothing: [] or false.
Degraded(tool) ==
  IF tool \in {"inspect_variables", "get_call_stack"} THEN "empty" ELSE "false"

Succeeded(tool) ==
  IF tool \in {"inspect_variables", "get_call_stack"} THEN "list" ELSE "true"

\* if (!session)
NoActiveSession(session) == session = None

\* The audit line a session tool writes when it is called; inspect_variables
\* and the tools with a try block write one, before the registry is called.
RequestAudit(tool, stepType) ==
  <<Line("audit", "requested " \o RegistryMethod(tool),
         IF tool = "step_execution" THEN <<<<stepType>>>> ELSE <<>>)>>

\* The audit line a session tool writes when the registry has returned.
ResultAudit(tool, stepType, result) ==
  <<Line("audit", "result of " \o RegistryMethod(tool) \o ": " \o result,
         IF tool = "step_execution" THEN <<<<stepType>>>> ELSE <<>>)>>

\* The registry method returns result after it wrote the line text.
Returned(request, result, text) ==
  [request EXCEPT
     !.pc = "done", !.result = result,
     !.trace = request.trace \o <<Line("diag", text, <<>>)>>
                \o ResultAudit(request.tool, request.arg, result)]

\* A stopDebugging that deletes its session from the live map itself.
CallSessionToolForgetsSession(tool, stepType) ==
  /\ op.pc \in {"idle", "done"}
  /\ (tool = "step_execution") = (stepType # "")
  /\ LET request ==
           [NoOp EXCEPT !.tool = tool, !.arg = stepType, !.session = activeDebugSession,
              !.trace = RequestAudit(tool, stepType)
                        \o <<Line("call", RegistryMethod(tool), <<>>)>>]
     IN  op' = IF NoActiveSession(activeDebugSession)
                 THEN Returned(request, Degraded(tool),
                               IF tool = "stop_debugging"
                                 THEN "No active debug session to stop"
                               ELSE "No active debug session")
               ELSE [request EXCEPT !.pc = "waiting",
                       !.requests = <<FirstRequest(tool, stepType)>>]
  /\ activeSessions' =
       IF tool = "stop_debugging" /\ ~NoActiveSession(activeDebugSession)
         THEN MapDelete(activeSessions, Val(activeDebugSession))
       ELSE activeSessions
  /\ UNCHANGED <<workspaceFolders, files, breakpoints, approvedConfigs, requireConsent,
                 calls, resp, probe, backendSessions,
                 activeDebugSession, lastEvent, httpVars, dialog>>

\* The agent calls a session tool: the registry reads the active session,
\* returns at once when there is none and sends its first request otherwise.
CallSessionTool(tool, stepType) ==
  /\ op.pc \in {"idle", "done"}
  /\ (tool = "step_execution") = (stepType # "")
  /\ LET request ==
           [NoOp EXCEPT !.tool = tool, !.arg = stepType, !.session = activeDebugSession,
              !.trace = RequestAudit(tool, stepType)
                        \o <<Line("call", RegistryMethod(tool), <<>>)>>]
     IN  op' = IF NoActiveSession(activeDebugSession)
                 THEN Returned(request, Degraded(tool),
                               IF tool = "stop_debugging"
                                 THEN "No active debug session to stop"
                               ELSE "No active debug session")
               ELSE [request EXCEPT !.pc = "waiting",
                       !.requests = <<FirstRequest(tool, stepType)>>]
  /\ UNCHANGED <<workspaceFolders, files, breakpoints, approvedConfigs, requireConsent,
                 calls, resp, probe, activeSessions, backendSessions,
                 activeDebugSession, lastEvent, httpVars, dialog>>

BackendOutcomes == {"ok", "no frames", "rejected"}

\* The backend answers the pending request of the session tool: the request
\* resolves ("ok"; a stack trace may have no frames) or is rejected, which
\* the catch of the registry method turns into its degraded result.
BackendResponds(outcome) ==
  /\ op.pc = "waiting"
  /\ outcome = "no frames" => op.requests[Len(op.requests)] = "stackTrace"
  /\ op' =
       IF outcome = "rejected"
         THEN Returned(op, Degraded(op.tool), "Error " \o RegistryMethod(op.tool))
       ELSE IF op.tool = "inspect_variables" /\ Len(op.requests) = 1
         THEN IF outcome = "no frames"
                THEN Returned(op, "empty", "No stack frame available")
              ELSE [op EXCEPT !.requests = Append(op.requests, "variables")]
       ELSE IF outcome = "no frames"
         THEN Returned(op, "empty", "")
       ELSE Returned(op, Succeeded(op.tool), RegistryMethod(op.tool) \o " done")
  /\ UNCHANGED <<workspaceFolders, files, breakpoints, approvedConfigs, requireConsent,
                 calls, resp, probe, activeSessions, backendSessions,
                 activeDebugSession, lastEvent, httpVars, dialog>>

ReadTools ==
  {"list_debug_sessions", "get_active_session_info", "list_breakpoints",
   "list_launch_configurations"}

\* The agent calls a tool that reads: the handler calls the registry and
\* then writes its one audit line; list_launch_configurations writes none.
\* readable is whether a launch.json can be read.
CallReadTool(tool, readable) ==
  /\ op.pc \in {"idle", "done"}
  /\ IF tool = "list_launch_configurations" THEN TRUE ELSE readable
  /\ op' = [NoOp EXCEPT
       !.tool = tool, !.pc = "done",
       !.result =
         CASE tool = "list_debug_sessions" -> "list"
           [] tool = "get_active_session_info" ->
                IF activeDebugSession = None THEN "No active debug session" ELSE "session"
           [] tool = "list_breakpoints" -> "list"
           [] tool = "list_launch_configurations" ->
                IF workspaceFolders # <<>> /\ readable THEN "list" ELSE "empty",
       !.session = IF tool = "get_active_session_info" THEN activeDebugSession ELSE None,
       !.listed = IF tool = "list_debug_sessions" THEN activeSessions ELSE <<>>,
       !.trace =
         <<Line("call", RegistryMethod(tool), <<>>)>>
         \o (CASE tool = "list_launch_configurations" ->
                   IF workspaceFolders = <<>>
                     THEN <<Line("diag", "No workspace folders found", <<>>)>>
                   ELSE IF ~readable
                     THEN <<Line("diag", "Could not read launch.json", <<>>)>>
                   ELSE <<>>
               [] OTHER -> <<Line("audit", "requested " \o RegistryMethod(tool), <<>>)>>)]
  /\ UNCHANGED <<workspaceFolders, files, breakpoints, approvedConfigs, requireConsent,
                 calls, resp, probe, activeSessions, backendSessions,
                 activeDebugSession, lastEvent, httpVars, dialog>>

\* The registry is constructed when the connector starts: sessions may run
\* already, and one of them may have the focus.
InitSessions ==
  /\ workspaceFolders = <<W>>
  /\ files = {WA, EA}
  /\ breakpoints = {}
  /\ approvedConfigs = <<>>
  /\ requireConsent = None
  /\ calls = NoCalls
  /\ resp = NoResp
  /\ probe = NoProbe
  /\ InitHttpIdle
  /\ InitDialogClosed
  /\ activeSessions = <<>>
  /\ backendSessions \in SUBSET SessionIds
  /\ activeDebugSession \in {None} \cup {Some(id) : id \in backendSessions}
  /\ lastEvent = [id \in SessionIds |-> "none"]
  /\ op = NoOp

NextSessions ==
  \/ \E id \in SessionIds : SessionStarted(id)
  \/ \E id \in SessionIds : SessionTerminated(id)
  \/ \E session \in {None} \cup {Some(id) : id \in SessionIds} : ActiveSessionChanges(session)
  \/ \E tool \in SessionTools, stepType \in StepTypes \cup {""} : CallSessionTool(tool, stepType)
  \/ \E outcome \in BackendOutcomes : BackendResponds(outcome)
  \/ \E tool \in ReadTools, readable \in BOOLEAN : CallReadTool(tool, readable)
  \/ WorkspaceFoldersChange

SpecSessions == InitSessions /\ [][NextSessions]_vars

\* The extension has been activated: no connector runs.
InitConnector ==
  /\ InitSessionsIdle
  /\ InitDialogClosed
  /\ posts = NoPosts
  /\ serverTransport = None
  /\ connector = StoppedConnector
  /\ workspaceFolders = <<W>>
  /\ files = {WA, EA}
  /\ breakpoints = {}
  /\ approvedConfigs = <<>>
  /\ requireConsent = None
  /\ calls = NoCalls
  /\ resp = NoResp
  /\ probe = NoProbe

NextConnector ==
  \/ \E s \in StartIds : StartMCPServer(s)
  \/ \E s \in StartIds, outcome \in {"listening", "error"} : ListenSettles(s, outcome)
  \/ StopMCPServer
  \/ \E port \in Ports : UserSetsPort(port)

SpecConnector == InitConnector /\ [][NextConnector]_vars

\* Every operation of the registry and of the consent manager next to the
\* session events: one session, one start_debugging request, one name.
InitOperations == InitBreakpoints

NextOperations ==
  \/ SessionStarted("s1")
  \/ SessionTerminated("s1")
  \/ \E session \in {None, Some("s1")} : ActiveSessionChanges(session)
  \/ \E tool \in SessionTools, stepType \in {"over", ""} : CallSessionTool(tool, stepType)
  \/ \E outcome \in BackendOutcomes : BackendResponds(outcome)
  \/ \E tool \in ReadTools : CallReadTool(tool, TRUE)
  \/ SetBreakpointTool(BaseArgs, TRUE)
  \/ RemoveBreakpointTool(BaseArgs)
  \/ \E b \in {"started", "declined"} : StartDebuggingTool(1, NameA, None, b)
  \/ \E a \in PromptAnswers : AnswerPrompt(1, a, "started")
  \/ UpdateResolves(1, "started")
  \/ Respond(1)
  \/ ShowManageApprovalsDialog
  \/ \E selected \in {None} \cup {Some(item) : item \in QuickPickItems(dialog.shown)} :
        QuickPickResolves(selected)
  \/ \E confirm \in {None, Some("Revoke"), Some("Clear All"), Some("Cancel")} :
        WarningResolves(confirm)
  \/ DialogUpdateResolves

SpecOperations == InitOperations /\ [][NextOperations]_vars

(***************************************************************************)
(* POST /mcp: one StreamableHTTPServerTransport per request, all of them   *)
(* connected to the one McpServer that createMcpServer constructs.         *)
(*                                                                         *)
(* McpServer.connect makes the transport it is given the server's          *)
(* transport; the server has one.  The protocol library is not part of the *)
(* repository, so where the server sends the result of a handler is a      *)
(* choice over its builds: on the transport the request came in on         *)
(* ("captured") or on the transport the server is connected to when the    *)
(* handler returns ("current").  Clients number their requests from the    *)
(* same start, so a transport accepts the response of either request.      *)
(* A transport that closes tells the server, which then has no transport.  *)
(***************************************************************************)
ResponseRoutes == {"captured", "current"}

\* The transport the server sends the response of request r on, if any.
SendTarget(r, route) ==
  LET t == IF route = "captured" THEN Some(r) ELSE serverTransport
  IN  IF t = None THEN None
      ELSE IF posts[Val(t)].open THEN t
      ELSE None

\* app.post('/mcp'): a transport is made for request r, the server is
\* connected to it and the request is handed to the tool handler, which
\* waits for the backend.
PostArrives(r) ==
  /\ posts[r].pc = "idle"
  /\ posts' = [posts EXCEPT ![r] = [NoPost EXCEPT !.pc = "handling", !.open = TRUE]]
  /\ serverTransport' = Some(r)
  /\ UNCHANGED <<workspaceFolders, files, breakpoints, approvedConfigs, requireConsent,
                 calls, resp, probe, sessionVars, dialog, connector>>

\* The backend call of request r is done and its handler returns: the
\* server sends the response.
HandlerReturns(r, route) ==
  /\ posts[r].pc = "handling"
  /\ posts' = [posts EXCEPT ![r] =
                 [@ EXCEPT !.pc = "done", !.deliveredOn = SendTarget(r, route)]]
  /\ UNCHANGED <<workspaceFolders, files, breakpoints, approvedConfigs, requireConsent,
                 calls, resp, probe, sessionVars, serverTransport, dialog, connector>>

\* res.on('close') of request r while its handler waits: transport.close(),
\* which the server hears of.  Nothing tells the handler: no signal is given
\* to the registry, and its backend call goes on.
ClientDisconnects(r) ==
  /\ posts[r].pc = "handling"
  /\ posts[r].open
  /\ posts' = [posts EXCEPT ![r] = [@ EXCEPT !.open = FALSE]]
  /\ serverTransport' = None
  /\ UNCHANGED <<workspaceFolders, files, breakpoints, approvedConfigs, requireConsent,
                 calls, resp, probe, sessionVars, dialog, connector>>

\* The exchange of request r is over: res.on('close') closes its transport
\* if it is still open, and the slot serves the next request.
PostCloses(r) ==
  /\ posts[r].pc = "done"
  /\ posts' = [posts EXCEPT ![r] = NoPost]
  /\ serverTransport' = IF posts[r].open THEN None ELSE serverTransport
  /\ UNCHANGED <<workspaceFolders, files, breakpoints, approvedConfigs, requireConsent,
                 calls, resp, probe, sessionVars, dialog, connector>>

InitTransport == InitBreakpoints

NextTransport ==
  \/ \E r \in PostIds : PostArrives(r)
  \/ \E r \in PostIds, route \in ResponseRoutes : HandlerReturns(r, route)
  \/ \E r \in PostIds : ClientDisconnects(r)
  \/ \E r \in PostIds : PostCloses(r)

SpecTransport == InitTransport /\ [][NextTransport]_vars

AuditAround(trace) ==
  \E i, k \in 1..Len(trace) :
     /\ trace[i].kind = "audit"
     /\ trace[k].kind = "audit"
     /\ \A j \in 1..Len(trace) : trace[j].kind = "call" => (i < j /\ j < k)

\* C15: every invocation of a dispatched operation writes an audit entry
\* before the registry is invoked and another entry after it, on success
\* and on failure alike.
C15_AuditBeforeAndAfterEveryCall ==
  op.pc = "done" => AuditAround(op.trace)

\* C16: no line written to the log holds caller-supplied content that the
\* validator rejects: a path with CR, LF or NUL, or one that fails
\* validation otherwise, is not copied into a log line.
C16_NoRejectedContentInLog ==
  \A i \in 1..Len(resp.trace) :
     resp.trace[i].kind \in {"audit", "security", "diag"} =>
        \A j \in 1..Len(resp.trace[i].content) :
           /\ ~IncludesAny(resp.trace[i].content[j], {"CR", "LF", "NUL"})
           /\ validateFilePath(resp.trace[i].content[j]).isValid

InMap(m, key) == \E i \in 1..Len(m) : m[i] = key

\* C19: the live map holds a session id exactly when the last event the
\* registry observed for that id is 'started', it holds an id at most once,
\* and list_debug_sessions returns no terminated session.
C19_LiveMapFollowsEvents ==
  [][/\ \A id \in SessionIds : InMap(activeSessions', id) <=> lastEvent'[id] = "started"
     /\ \A i, j \in 1..Len(activeSessions') :
          activeSessions'[i] = activeSessions'[j] => i = j
     /\ (op' # op /\ op'.tool = "list_debug_sessions") =>
          /\ op'.listed = activeSessions
          /\ \A i \in 1..Len(op'.listed) : lastEvent[op'.listed[i]] = "started"]_vars

C19_Witness ==
  /\ lastEvent["s1"] = "terminated"
  /\ lastEvent["s2"] = "started"
  /\ op.tool = "list_debug_sessions"
  /\ op.listed = <<"s2">>
  /\ activeSessions = <<"s2">>

\* C20: with no active debug session, getVariables and getCallStack return
\* an empty list and step, continue and stop return false; no request is
\* sent to the backend and nothing is raised to the caller.
C20_NoSessionDegrades ==
  [][(op' # op /\ op.pc \in {"idle", "done"} /\ op'.tool \in SessionTools
        /\ activeDebugSession = None) =>
       /\ op'.pc = "done"
       /\ op'.requests = <<>>
       /\ ~op'.threw
       /\ op'.result = (IF op'.tool \in {"inspect_variables", "get_call_stack"}
                          THEN "empty" ELSE "false")]_vars

C20_Witness ==
  /\ op.pc = "done"
  /\ op.tool = "stop_debugging"
  /\ op.session = None
  /\ op.requests = <<>>
  /\ op.result = "false"
  /\ backendSessions # {}

\* C17: every start_debugging request that reached its handler, one that
\* waits on the consent prompt included, eventually has its response.
C17_EveryRequestIsAnswered ==
  \A c \in CallIds : (calls[c].pc \in {"prompt", "updating"}) ~> (calls[c].pc = "done")

\* A step of the remove_breakpoint tool.
RemoveBreakpointStep == resp' # resp /\ resp'.tool = "remove_breakpoint"

\* bp is a source breakpoint at the file and line of args, and at the column
\* of args when args has one.
AtLocation(bp, args) ==
  /\ bp.kind = "source"
  /\ bp.file = validateFilePath(args.file).sanitized
  /\ bp.line + 1 = args.line.whole
  /\ IF args.column = None THEN TRUE
     ELSE bp.character + 1 = Val(args.column).whole

\* C21: removeBreakpoint(F, L) removes every source breakpoint at file F and
\* line L whatever its column, removeBreakpoint(F, L, C) removes only those
\* at exactly (F, L, C); every other breakpoint stays in the backend set.
C21_RemovesExactlyTheMatches ==
  [][(RemoveBreakpointStep /\ ~resp'.threw) =>
       /\ breakpoints' = {bp \in breakpoints : ~AtLocation(bp, resp'.args)}
       /\ resp'.removed = {bp \in breakpoints : AtLocation(bp, resp'.args)}]_vars

C21_Witness ==
  /\ resp.tool = "remove_breakpoint"
  /\ resp.args.column = Some(Num(2))
  /\ resp.removed = {SourceBreakpoint(WA, 0, 1, None, None, None)}
  /\ SourceBreakpoint(WA, 0, 0, None, None, None) \in breakpoints

\* C23: removeBreakpoint with valid arguments returns true exactly when at
\* least one breakpoint matched and was removed; when nothing matches it
\* returns false, removes nothing and leaves the breakpoint set unchanged.
C23_TrueExactlyWhenRemoved ==
  [][(RemoveBreakpointStep /\ ~resp'.threw) =>
       LET matched == {bp \in breakpoints : AtLocation(bp, resp'.args)}
       IN  /\ resp'.success \in {"true", "false"}
           /\ resp'.success = "true" <=> (matched # {} /\ matched \cap breakpoints' = {})
           /\ matched = {} =>
                /\ resp'.success = "false"
                /\ resp'.removed = {}
                /\ breakpoints' = breakpoints
                /\ \A i \in 1..Len(resp'.trace) :
                      resp'.trace[i].text # "Removed breakpoint at"]_vars

C23_Witness ==
  /\ resp.tool = "remove_breakpoint"
  /\ ~resp.threw
  /\ resp.success = "false"
  /\ resp.removed = {}
  /\ breakpoints = {}

\* The entries of a list of breakpoints at the file and the 1-based line.
EntriesAt(list, file, line) == {e \in list : e.file = file /\ e.line = line}

\* C22: a setBreakpoint(F, L) call with valid arguments, made when no
\* breakpoint exists at (F, L), returns a record with line L and enabled
\* true, and listBreakpoints right after it has exactly one entry at file F
\* and line L.
C22_SetThenListedOnce ==
  [][(/\ SetBreakpointStep
      /\ ~resp'.threw
      /\ EntriesAt(getAllBreakpoints, validateFilePath(resp'.args.file).sanitized,
                   resp'.args.line.whole) = {}) =>
       /\ Val(resp'.value).line = resp'.args.line
       /\ Val(resp'.value).enabled
       /\ Cardinality(EntriesAt(getAllBreakpoints',
                                validateFilePath(resp'.args.file).sanitized,
                                resp'.args.line.whole)) = 1
       /\ \A e \in EntriesAt(getAllBreakpoints',
                             validateFilePath(resp'.args.file).sanitized,
                             resp'.args.line.whole) : e.enabled]_vars

C22_Witness ==
  /\ resp.tool = "set_breakpoint"
  /\ ~resp.threw
  /\ resp.args.file = WA
  /\ resp.args.line = Num(1)
  /\ Val(resp.value).line = Num(1)
  /\ Cardinality(EntriesAt(getAllBreakpoints, WA, 1)) = 1
  /\ Cardinality(getAllBreakpoints) = 2

\* The id derived from a location on its own: the normalized file path, the
\* zero-based line and the zero-based column, in decimal, joined by colons.
LocationId(file, line0, column0) ==
  file \o <<":">> \o Digits(line0) \o <<":">> \o Digits(column0)

SameLocation(e1, e2) ==
  e1.file = e2.file /\ e1.line = e2.line /\ e1.column = e2.column

\* C24: the id of a breakpoint is a function of its normalized file path,
\* zero-based line and zero-based column only: the id setBreakpoint returned,
\* the id of that breakpoint in a later list and the id derived from the
\* location are equal, and breakpoints at different locations have
\* different ids.
C24_IdIsAFunctionOfTheLocation ==
  /\ \A e \in getAllBreakpoints : e.id = LocationId(e.file, e.line - 1, e.column - 1)
  /\ \A e1, e2 \in getAllBreakpoints : e1.id = e2.id => SameLocation(e1, e2)
  /\ (resp.tool = "set_breakpoint" /\ ~resp.threw) =>
       LET v == Val(resp.value)
           column0 == IF v.column = None THEN 0 ELSE Val(v.column).whole - 1
       IN  /\ v.id = LocationId(v.file, v.line.whole - 1, column0)
           /\ \A e \in getAllBreakpoints :
                 (e.file = v.file /\ e.line = v.line.whole /\ e.column = column0 + 1)
                    <=> e.id = v.id

C24_Witness ==
  /\ resp.tool = "set_breakpoint"
  /\ ~resp.threw
  /\ resp.args.column = Some(Num(2))
  /\ \E e \in getAllBreakpoints : e.id = Val(resp.value).id /\ e.column = 2
  /\ \E e \in getAllBreakpoints : e.file = EA \o <<":", "1">> /\ e.line = 11

\* How often name is in the list.
Count(list, name) == Cardinality({i \in 1..Len(list) : list[i] = name})

\* C27: approve(name) and revoke(name) are idempotent on the approved set:
\* approve leaves name in the set exactly once and revoke leaves it absent,
\* a second application in sequence changes nothing, and neither changes
\* the membership of any other name.
C27_ApproveAndRevokeAreIdempotent ==
  [][(probe' # probe) =>
       /\ Count(approvedConfigs', probe'.input) =
            (IF probe'.fn = "approveConfiguration" THEN 1 ELSE 0)
       /\ \A other \in ApprovalNames \ {probe'.input} :
             Count(approvedConfigs', other) = Count(approvedConfigs, other)
       /\ probe'.result.repeats => approvedConfigs' = approvedConfigs]_vars

C27_Witness ==
  /\ probe.fn = "revokeConfigurationApproval"
  /\ probe.input = NameA
  /\ probe.result.repeats
  /\ probe.result.before = <<NameB>>
  /\ approvedConfigs = <<NameB>>

\* The settings are as installed: no setting of the connector was changed.
DefaultSettings == requireConsent = None /\ approvedConfigs = <<>>

\* C28: by default the agent has read access only: with the default
\* settings, a request of the agent that changes debugger state (here
\* set_breakpoint and remove_breakpoint) has no effect on the backend.
C28_ReadOnlyByDefault ==
  (DefaultSettings /\ resp.tool \in {"set_breakpoint", "remove_breakpoint"}) =>
     (resp.added = {} /\ resp.removed = {})

C31_ApproveOnceGrantsOneCall ==
  [][\A c \in CallIds :
       /\ (StepOf(c) /\ calls[c].pc = "prompt" /\ calls'[c].answer = Some("Approve Once")) =>
            /\ calls'[c].pc = "done"
            /\ calls'[c].canUse = Some(TRUE)
            /\ calls'[c].pending = None
            /\ approvedConfigs' = approvedConfigs
       /\ (/\ StepOf(c) /\ calls[c].pc = "idle"
           /\ \E d \in CallIds : /\ calls[d].pc = "done"
                                 /\ calls[d].answer = Some("Approve Once")
                                 /\ calls[d].name = calls'[c].name
           /\ isConsentRequired
           /\ ~isConfigurationApproved(calls'[c].name)) =>
            (calls'[c].pc = "prompt" /\ calls'[c].prompts = 1)]_vars

C31_Witness ==
  \E c, d \in CallIds :
     /\ calls[d].pc = "done" /\ calls[d].answer = Some("Approve Once")
     /\ calls[d].canUse = Some(TRUE)
     /\ calls[d].name = NameA
     /\ calls[c].pc = "prompt" /\ calls[c].name = NameA /\ calls[c].prompts = 1
     /\ ~isConfigurationApproved(NameA)
     /\ isConsentRequired

\* C32: the live session map is written only by the handlers of the
\* 'started' and 'terminated' events, and the approved set only by the
\* consent manager: every registry operation (a step of a tool request)
\* leaves the live map unchanged, and every step other than the write of an
\* Approve Always answer, of a confirmed revoke or of a confirmed clear
\* leaves the approved set unchanged.
C32_OnlyEventsWriteTheMapOnlyConsentWritesTheSet ==
  [][/\ (op' # op \/ resp' # resp \/ calls' # calls) => activeSessions' = activeSessions
     /\ activeSessions' # activeSessions =>
          \E id \in SessionIds :
             /\ lastEvent'[id] # lastEvent[id]
             /\ lastEvent'[id] \in {"started", "terminated"}
     /\ approvedConfigs' # approvedConfigs =>
          \/ \E c \in CallIds : /\ StepOf(c)
                                /\ calls[c].pc = "updating"
                                /\ calls[c].answer = Some("Approve Always")
          \/ /\ dialog' # dialog
             /\ dialog.pc = "updating"
             /\ \/ Val(dialog.selected).action = "revoke" /\ dialog.answer = Some("Revoke")
                \/ Val(dialog.selected).action = "clear" /\ dialog.answer = Some("Clear All")]_vars

\* stopDebugging has returned true and its session is still in the live
\* map, while a request that was granted once has left the approved set as
\* the confirmed revoke made it.
C32_Witness ==
  /\ op.pc = "done" /\ op.tool = "stop_debugging" /\ op.result = "true"
  /\ IsSome(op.session) /\ InMap(activeSessions, Val(op.session))
  /\ calls[1].pc = "done" /\ calls[1].answer = Some("Approve Once")
  /\ resp.tool = "remove_breakpoint"
  /\ dialog.message = "Approval revoked for"
  /\ approvedConfigs = <<>>

\* The catch block of the registry method wrote its line: the backend
\* request of the session tool was rejected.
RequestFailed(request) ==
  \E i \in 1..Len(request.trace) :
     request.trace[i] = Line("diag", "Error " \o RegistryMethod(request.tool), <<>>)

\* C33: when the backend request of step, continue, stopDebugging,
\* getVariables or getCallStack fails after the method read the active
\* session, whether or not that session has terminated meanwhile, the call
\* returns false (an empty list for the two that return lists); and however
\* the request completes, the call never raises.
C33_FailedRequestDegradesAndNeverRaises ==
  [][(op.pc = "waiting" /\ op'.pc = "done") =>
       /\ ~op'.threw
       /\ op'.result \in {"true", "false", "list", "empty"}
       /\ RequestFailed(op') =>
            op'.result = IF op.tool \in {"inspect_variables", "get_call_stack"}
                           THEN "empty" ELSE "false"]_vars

\* step read the active session, the session terminated, the request was
\* rejected, and step returned false.
C33_Witness ==
  /\ op.pc = "done" /\ op.tool = "step_execution"
  /\ IsSome(op.session) /\ lastEvent[Val(op.session)] = "terminated"
  /\ Val(op.session) \notin backendSessions
  /\ RequestFailed(op)
  /\ op.result = "false" /\ ~op.threw

\* C33 as stated: a call whose session terminated between the read of the
\* active session and the completion of the backend request returns false
\* or an empty list.
C33_TerminationMeansFalseOrEmpty ==
  [][(op.pc = "waiting" /\ op'.pc = "done" /\ lastEvent[Val(op.session)] = "terminated")
       => op'.result \in {"false", "empty"}]_vars

\* C34: whenever startDebugging asks the backend to start a session, the
\* folder it passes is one of the current workspace folders: the first one
\* when no folder argument is given, otherwise the one whose path equals the
\* validated folder argument; when there is no such folder the call returns
\* false and no start request is made.
C34_StartsOnlyInAWorkspaceFolder ==
  [][\A c \in CallIds :
       (StepOf(c) /\ calls'[c].pc = "done" /\ calls'[c].canUse = Some(TRUE)) =>
         LET call == calls'[c]
             given == IsSome(call.folder) /\ Val(call.folder) # <<>>
             isFolder(f) == \E i \in 1..Len(workspaceFolders) : workspaceFolders[i] = f
         IN  /\ IsSome(call.startRequest) =>
                  /\ isFolder(Val(call.startRequest).folder)
                  /\ IF given
                       THEN /\ validateFilePath(Val(call.folder)).isValid
                            /\ Val(call.startRequest).folder
                                 = validateFilePath(Val(call.folder)).sanitized
                     ELSE Val(call.startRequest).folder = workspaceFolders[1]
             /\ (IF given
                   THEN /\ validateFilePath(Val(call.folder)).isValid
                        /\ ~isFolder(validateFilePath(Val(call.folder)).sanitized)
                 ELSE workspaceFolders = <<>>) =>
                  (call.startRequest = None /\ call.result = "false")]_vars

\* One request started in the first folder with no argument, the other was
\* given /w when no folder was open and returned false without a start.
C34_Witness ==
  \E c, d \in CallIds :
     /\ calls[c].pc = "done" /\ calls[c].folder = None
     /\ IsSome(calls[c].startRequest) /\ Val(calls[c].startRequest).folder = W
     /\ calls[d].pc = "done" /\ calls[d].folder = Some(W)
     /\ calls[d].canUse = Some(TRUE)
     /\ calls[d].startRequest = None /\ calls[d].result = "false"

\* The record setBreakpoint returned and an entry of listBreakpoints agree
\* in every field; an omitted column (undefined) equals no listed column.
SameRecord(returned, listed) ==
  /\ returned.id = listed.id
  /\ returned.file = listed.file
  /\ returned.line = Num(listed.line)
  /\ returned.column = Some(Num(listed.column))
  /\ returned.enabled = listed.enabled
  /\ returned.condition = listed.condition
  /\ returned.hitCondition = listed.hitCondition
  /\ returned.logMessage = listed.logMessage

\* C35: the record a successful setBreakpoint(F, L, C?) returns is equal,
\* field for field (id, file, line, column, enabled, condition,
\* hitCondition, logMessage), to the record listBreakpoints reports for that
\* breakpoint right after it, with a column and without one.
C35_ReturnedRecordIsTheListedRecord ==
  [][(SetBreakpointStep /\ ~resp'.threw) =>
       \E listed \in getAllBreakpoints' : SameRecord(Val(resp'.value), listed)]_vars

\* C36: whenever getActiveSession returns a session, listActiveSessions
\* contains a session with the same id, also for a session that was started
\* before the registry was constructed.
C36_ActiveSessionIsListed ==
  IsSome(activeDebugSession) => InMap(activeSessions, Val(activeDebugSession))

\* C37: the mutations of the approved set are atomic with respect to each
\* other: no update is lost, so once two canUse calls for distinct names
\* have both been answered Approve Always and have finished, overlapping or
\* not, both names are in the approved set.
C37_NoApprovalIsLost ==
  \A c, d \in CallIds :
     (/\ c # d
      /\ calls[c].pc = "done" /\ calls[c].answer = Some("Approve Always")
      /\ calls[d].pc = "done" /\ calls[d].answer = Some("Approve Always")
      /\ calls[c].name # calls[d].name) =>
       (isConfigurationApproved(calls[c].name) /\ isConfigurationApproved(calls[d].name))

\* C38: after any sequence of start and stop commands, overlapping or not,
\* at most one HTTP server listens and at most one registry is subscribed
\* to the session events; and when the connector is stopped and no start is
\* pending, no registry is subscribed.
C38_OneServerOneRegistry ==
  /\ Cardinality(connector.listening) <= 1
  /\ Cardinality(connector.subscribed) <= 1
  /\ (/\ connector.mcpServer = None
      /\ \A s \in StartIds : connector.starts[s].pc # "listening") =>
       connector.subscribed = {}

\* The breakpoints of a set that are at the location (file, line, column?)
\* the arguments denote: on the line when the column is omitted.
BreakpointsAt(set, args) == {bp \in set : AtLocation(bp, args)}

\* The last request was a successful setBreakpoint on a location that had no
\* breakpoint, what it installed is the only breakpoint at the location,
\* and the path string still denotes the file of the breakpoint.
JustSetOnFreeLocation ==
  /\ resp.tool = "set_breakpoint" /\ ~resp.threw /\ resp.free
  /\ BreakpointsAt(breakpoints, resp.args) = resp.added
  /\ \A bp \in resp.added : bp.file = UriFile(validateFilePath(resp.args.file).sanitized)

\* C39: set then remove is a round trip: after a successful
\* setBreakpoint(F, L, C?) on a location that had no breakpoint,
\* removeBreakpoint with the same path string, line and optional column
\* returns true and restores the breakpoint set to what it was before the
\* set (it takes out what the set installed and nothing else), whether or
\* not the file still exists.
C39_SetThenRemoveIsARoundTrip ==
  [][(/\ JustSetOnFreeLocation
      /\ RemoveBreakpointStep
      /\ resp'.args.file = resp.args.file
      /\ resp'.args.line = resp.args.line
      /\ resp'.args.column = resp.args.column) =>
       /\ ~resp'.threw
       /\ resp'.success = "true"
       /\ resp'.removed = resp.added
       /\ breakpoints' = breakpoints \ resp.added]_vars

\* removeBreakpoint("a", 1, 2) has returned true after /w/a was deleted: it
\* removed the one breakpoint at column 2, which only setBreakpoint
\* installs, and left the breakpoint the user holds.
C39_Witness ==
  /\ resp.tool = "remove_breakpoint" /\ resp.success = "true"
  /\ resp.args.file = <<"a">> /\ resp.args.column = Some(Num(2))
  /\ WA \notin files
  /\ Cardinality(resp.removed) = 1
  /\ \A bp \in resp.removed : bp.character = 1
  /\ breakpoints # {}

(***************************************************************************)
(* The validators on their own: one drawn input, one application.          *)
(***************************************************************************)
MaxPathLen == 5

PathChars == {"/", ".", "~", "a", "LF", "X"}

SeqsUpTo(S, n) == UNION {[1..k -> S] : k \in 0..n}

PathInputs == SeqsUpTo(PathChars, MaxPathLen)

InitValidator ==
  /\ workspaceFolders \in {<<>>, <<W>>}
  /\ files = {}
  /\ breakpoints = {}
  /\ approvedConfigs = <<>>
  /\ requireConsent = None
  /\ calls = NoCalls
  /\ resp = NoResp
  /\ InitSessionsIdle
  /\ InitHttpIdle
  /\ InitDialogClosed
  /\ \E p \in PathInputs :
       probe = [fn |-> "validateFilePath", input |-> p, done |-> FALSE,
                result |-> Accept(<<>>)]

ApplyValidateFilePath ==
  /\ probe.fn = "validateFilePath"
  /\ ~probe.done
  /\ probe' = [probe EXCEPT !.done = TRUE, !.result = validateFilePath(probe.input)]
  /\ UNCHANGED <<workspaceFolders, files, breakpoints, approvedConfigs, requireConsent,
                 calls, resp, sessionVars, httpVars, dialog>>

NextValidator == ApplyValidateFilePath

SpecValidator == InitValidator /\ [][NextValidator]_vars

\* The sanitizers: validateBreakpointCondition and validateLogMessage applied
\* to a drawn text, and then to the text they returned.
MaxTextLen == 4

TextChars == {"SP", "CR", "LF", "<", ">", "a", "X"}

TextInputs == SeqsUpTo(TextChars, MaxTextLen)

Sanitizers == {"validateBreakpointCondition", "validateLogMessage"}

ApplySanitizerTo(fn, text) ==
  IF fn = "validateBreakpointCondition" THEN validateBreakpointCondition(text)
  ELSE validateLogMessage(text)

InitSanitizer ==
  /\ workspaceFolders = <<W>>
  /\ files = {}
  /\ breakpoints = {}
  /\ approvedConfigs = <<>>
  /\ requireConsent = None
  /\ calls = NoCalls
  /\ resp = NoResp
  /\ InitSessionsIdle
  /\ InitHttpIdle
  /\ InitDialogClosed
  /\ \E fn \in Sanitizers, text \in TextInputs :
       probe = [fn |-> fn, input |-> text, done |-> FALSE,
                result |-> [first |-> Accept(<<>>), second |-> Accept(<<>>)]]

\* The sanitizer is applied to the input, and again to what it returned.
ApplySanitizer ==
  /\ probe.fn \in Sanitizers
  /\ ~probe.done
  /\ \E first \in {ApplySanitizerTo(probe.fn, probe.input)} :
        probe' = [probe EXCEPT
          !.done = TRUE,
          !.result = [first |-> first,
                      second |-> ApplySanitizerTo(probe.fn, first.sanitized)]]
  /\ UNCHANGED <<workspaceFolders, files, breakpoints, approvedConfigs, requireConsent,
                 calls, resp, sessionVars, httpVars, dialog>>

NextSanitizer == ApplySanitizer

SpecSanitizer == InitSanitizer /\ [][NextSanitizer]_vars

\* C29: whenever validateFilePath accepts a path, the path it returns is a
\* normalized absolute path, whether or not a workspace folder is open.
C29_AcceptedPathIsAbsolute ==
  (probe.done /\ probe.result.isValid) =>
     /\ IsAbsolute(probe.result.sanitized)
     /\ Normalize(probe.result.sanitized) = probe.result.sanitized

\* validateLineNumber on its own: the numbers around 0, around the largest
\* line number and far beyond it, whole or with a fraction.
LineSpan == 20

LineInputs ==
  LET wholes == (-LineSpan..LineSpan)
                \cup ((1000000 - LineSpan)..(1000000 + LineSpan))
                \cup {-2147483647, 2147483647}
  IN  {Num(n) : n \in wholes} \cup {NumHalf(n) : n \in wholes}

InitLineNumber ==
  /\ workspaceFolders = <<W>>
  /\ files = {}
  /\ breakpoints = {}
  /\ approvedConfigs = <<>>
  /\ requireConsent = None
  /\ calls = NoCalls
  /\ resp = NoResp
  /\ InitSessionsIdle
  /\ InitHttpIdle
  /\ InitDialogClosed
  /\ \E n \in LineInputs :
       probe = [fn |-> "validateLineNumber", input |-> n, done |-> FALSE,
                result |-> Accept(<<>>)]

ApplyValidateLineNumber ==
  /\ probe.fn = "validateLineNumber"
  /\ ~probe.done
  /\ probe' = [probe EXCEPT !.done = TRUE, !.result = validateLineNumber(probe.input)]
  /\ UNCHANGED <<workspaceFolders, files, breakpoints, approvedConfigs, requireConsent,
                 calls, resp, sessionVars, httpVars, dialog>>

NextLineNumber == ApplyValidateLineNumber

SpecLineNumber == InitLineNumber /\ [][NextLineNumber]_vars

\* C26: validateLineNumber rejects every integer n with n <= 0 or
\* n > 1,000,000 and accepts every integer n with 1 <= n <= 1,000,000.
C26_LineNumberRange ==
  (probe.done /\ probe.input.frac = 0) =>
     (probe.result.isValid <=> (1 <= probe.input.whole /\ probe.input.whole <= 1000000))

C26_Witness ==
  /\ probe.done
  /\ probe.input = Num(1000000)
  /\ probe.result.isValid

\* C25: sanitization is idempotent for validateBreakpointCondition and
\* validateLogMessage: when an input is accepted with the sanitized result t,
\* validating t is accepted and returns t again.
C25_SanitizationIsIdempotent ==
  (probe.done /\ probe.result.first.isValid) =>
     /\ probe.result.second.isValid
     /\ probe.result.second.sanitized = probe.result.first.sanitized

C25_Witness ==
  /\ probe.done
  /\ probe.fn = "validateLogMessage"
  /\ probe.input = <<"<", "SP", "a", "LF">>
  /\ probe.result.first.sanitized = <<"a">>
  /\ probe.result.second = Accept(<<"a">>)

HasDotDotSegment(p) == \E i \in 1..Len(Split(p)) : Split(p)[i] = DotDot

\* C7: validateFilePath rejects every input path that contains a ".." path
\* segment or a "~" character, wherever it occurs in the path.
C7_RejectsEveryTraversal ==
  (probe.fn = "validateFilePath" /\ probe.done
     /\ (HasDotDotSegment(probe.input) \/ Includes(probe.input, <<"~">>)))
  => ~probe.result.isValid

(***************************************************************************)
(* createSafeError on its own: one operation, two details, one application *)
(* to each detail.                                                         *)
(***************************************************************************)
Operations == {"setBreakpoint", "removeBreakpoint", "startDebugging"}

\* The details the registry passes; "" is an omitted detailedError.
Details ==
  { "",
    "File path must be a non-empty string", "File path too long",
    "Path traversal detected", "Invalid characters in path",
    "Line number must be a positive integer", "Line number too large",
    "Column number must be a positive integer", "Column number too large",
    "Breakpoint condition too long", "Log message too long",
    "Configuration name must be a non-empty string", "Configuration name too long",
    "Invalid characters in configuration name", "File not found in workspace" }

InitSafeError ==
  /\ workspaceFolders = <<W>>
  /\ files = {}
  /\ breakpoints = {}
  /\ approvedConfigs = <<>>
  /\ requireConsent = None
  /\ calls = NoCalls
  /\ resp = NoResp
  /\ InitSessionsIdle
  /\ InitHttpIdle
  /\ InitDialogClosed
  /\ \E o \in Operations, d1 \in Details, d2 \in Details :
       probe = [fn |-> "createSafeError",
                input |-> [operation |-> o, detail1 |-> d1, detail2 |-> d2],
                done |-> FALSE,
                result |-> [message1 |-> NoMessage, message2 |-> NoMessage,
                            log1 |-> <<>>, log2 |-> <<>>]]

ApplyCreateSafeError ==
  /\ probe.fn = "createSafeError"
  /\ ~probe.done
  /\ probe' = [probe EXCEPT
       !.done = TRUE,
       !.result = [message1 |-> createSafeError(probe.input.operation, probe.input.detail1),
                   message2 |-> createSafeError(probe.input.operation, probe.input.detail2),
                   log1 |-> createSafeErrorLog(probe.input.operation, probe.input.detail1),
                   log2 |-> createSafeErrorLog(probe.input.operation, probe.input.detail2)]]
  /\ UNCHANGED <<workspaceFolders, files, breakpoints, approvedConfigs, requireConsent,
                 calls, resp, sessionVars, httpVars, dialog>>

NextSafeError == ApplyCreateSafeError

SpecSafeError == InitSafeError /\ [][NextSafeError]_vars

\* The detail d occurs in the message.
MessageEchoes(message, d) ==
  \/ message.template = d
  \/ message.operation = d
  \/ \E i \in 1..Len(message.path) : message.path[i] = d

\* C14: the message createSafeError returns depends on the operation name
\* only: two details give the same message, the detail is not in the
\* message, and a detail that is given is written to the internal log.
C14_SafeErrorDependsOnOperationOnly ==
  (probe.fn = "createSafeError" /\ probe.done) =>
     /\ probe.result.message1 = probe.result.message2
     /\ probe.result.message1.operation = probe.input.operation
     /\ \A d \in {probe.input.detail1, probe.input.detail2} \ {""} :
          /\ ~MessageEchoes(probe.result.message1, d)
          /\ ~MessageEchoes(probe.result.message2, d)
     /\ probe.input.detail1 # "" =>
          probe.result.log1 = <<Line("console", probe.input.detail1, <<>>)>>
     /\ probe.input.detail1 = "" => probe.result.log1 = <<>>

C14_Witness ==
  /\ probe.fn = "createSafeError"
  /\ probe.done
  /\ probe.input.detail1 = "Path traversal detected"
  /\ probe.input.detail2 = "File path too long"
  /\ probe.result.message1 = probe.result.message2
  /\ probe.result.log1 # probe.result.log2

=============================================================================
